---- MODULE Spec2Model ----
(***************************************************************************)
(* State machine model of the engine core of Chronicles of Aethermoor.     *)
(* StateManager (src/game/engine/state_manager.py): the registry of       *)
(* states, the state stack, the single-slot pending transition and the     *)
(* routing of update / render / handle_event; specification Spec.          *)
(* EventManager (src/game/engine/event_manager.py): the subscriber lists,  *)
(* the pending queue, the drain and the history; specifications            *)
(* SpecEvents, SpecSubs, SpecHistory, SpecQuery and SpecOwners.            *)
(* TimeManager (src/game/engine/time_manager.py): the calendar, the        *)
(* frame accumulator, the weather and the scheduled callbacks;             *)
(* specifications SpecCalendar, SpecClock, SpecSeasons and SpecSchedule.   *)
(***************************************************************************)
EXTENDS Integers, Sequences, FiniteSets, TLC

(* ------------------------------------------------------------------ *)
(* Bounds                                                             *)
(* ------------------------------------------------------------------ *)

\* largest number of transitions the model applies: no change or push is
\* applied once state_history (and with it the stack) has this many entries
MaxTransitions == 3

\* largest number of events the model lets the program emit
MaxEvents == 3

\* largest number of subscriptions the model lets the program make
MaxRefs == 4

\* largest number of events the model lets the program emit while it
\* follows the subscriptions
MaxNotified == 1

\* largest limit the model passes to get_event_history
MaxLimit == 4

\* largest number of events the model lets the program emit when it
\* follows the history past its capacity
MaxDispatched == 1002

\* largest number of advancement batches the model lets the clock make
MaxBatches == 3

\* largest number of advancement batches the model lets the clock make
\* when it follows the time of day, the season and the weather
MaxSeasonBatches == 2

\* the grains a game minute and a real second are divided into: delta_time
\* is a whole number of grains of a second, accumulated_time a whole
\* number of grains of a minute
Grain == 4

\* largest delta_time, in grains of a second, the model passes to update
MaxDt == 6

\* largest number of game minutes the model lets the frames add up to
MaxMinutes == 8

\* largest number of callbacks the model schedules one after the other
MaxScheduled == 3

\* largest number of one-minute frames the model lets pass while callbacks
\* are being scheduled
MaxTicks == 2

(* ------------------------------------------------------------------ *)
(* The GameState objects and their kinds                              *)
(* ------------------------------------------------------------------ *)

\* StateType values used by the model (two of the enumeration's members)
StateType == {"main_menu", "gameplay"}

\* GameState objects that exist; 0 stands for None
Objects == {1, 2}

NoObject == 0

\* state.state_type of every object
state_type == <<"main_menu", "gameplay">>

\* the data dictionaries passed to the manager: 0 is None / the empty dict,
\* 1 is a dict with one key
DataValues == {0, 1}

\* self.max_history
max_history == 50

NoTransition == [type |-> "none", target |-> "none", data |-> 0]

\* what a state callback may do while it runs: ask the manager for a
\* non-immediate transition (on = the callback that asks, "none" = no callback asks)
NoCallbackRequest == [on |-> "none", type |-> "none", target |-> "none"]

CallbackRequests ==
    {NoCallbackRequest} \cup
    [on : {"enter", "exit", "pause", "resume"}, type : {"change"}, target : {"main_menu"}]

\* the transition flags the constructors of the objects set: object 1 keeps
\* the defaults of GameState, object 2 is a modal overlay that cannot be paused
can_pause == <<TRUE, FALSE>>

blocks_input == <<FALSE, TRUE>>

overlay == <<FALSE, TRUE>>

(* ------------------------------------------------------------------ *)
(* The events, the listeners and what their handlers do               *)
(* ------------------------------------------------------------------ *)

\* EventType values used by the model (two of the enumeration's members)
EventType == {"player_moved", "item_used"}

\* EventListener objects that exist
Listeners == {1, 2, 3, 4}

\* listener.priority of every listener, as passed to EventListener.__init__
priority == <<5, 1, 5, -3>>

\* the sort key the subscriber lists use for a dead reference
DeadKey == -999

\* self._max_history of the EventManager
_max_history == 1000

\* what listener.handle_event may do with an event:
\*   "pass"    return False
\*   "consume" return True
\*   "raise"   raise an exception
\*   "emit"    emit(event.event_type) with immediate=False, then return False
\*   "drain"   call process_events(), then return False
Behaviours == {"pass", "consume", "raise", "emit", "drain"}

(* ------------------------------------------------------------------ *)
(* The calendar, the weather and the scheduled callbacks              *)
(* ------------------------------------------------------------------ *)

\* the members of the enumerations TimeOfDay, Season and WeatherType
TimeOfDay == {"dawn", "morning", "midday", "afternoon", "dusk", "evening", "night", "midnight"}

Season == {"spring", "summer", "autumn", "winter"}

WeatherType == {"clear", "cloudy", "rain", "storm", "fog", "snow", "crystal_storm"}

\* self.weather_patterns
weather_patterns ==
    [s \in Season |->
        CASE s = "spring" -> <<"clear", "rain", "cloudy">>
          [] s = "summer" -> <<"clear", "storm", "cloudy">>
          [] s = "autumn" -> <<"cloudy", "rain", "fog">>
          [] s = "winter" -> <<"snow", "cloudy", "clear">>]

\* GameTime(year, month, day, hour, minute)
GameTime(year, month, day, hour, minute) ==
    [year |-> year, month |-> month, day |-> day, hour |-> hour, minute |-> minute]

\* float('inf'): a next_execution that no total_minutes reaches
inf == 2000000000

\* the events TimeManager hands to emit_event: their kind and, of their
\* data, what tells them apart (the GameTime copies and the random
\* intensity and visibility are left out)
\*   "time"           old_time, new_time, time_of_day, season
\*   "sunrise" ...    transition
\*   "season_change"  type, old_season, new_season
\*   "weather"        old_weather, new_weather
\*   "forced"         old_weather, new_weather, forced
Published(k, what, old, new, time_of_day, season) ==
    [event_type |-> k, what |-> what, old |-> old, new |-> new,
     time_of_day |-> time_of_day, season |-> season]

VARIABLES
    _listeners,           \* self._listeners: EventType -> list of references
    _global_listeners,    \* self._global_listeners
    _event_queue,         \* self._event_queue
    _processing,          \* self._processing
    _event_history,       \* self._event_history
    enabled,              \* listener.enabled of every listener
    alive,                \* whether the listener object still exists (ref() is not None)
    next_ref,             \* identity of the next weakref.ref object created
    clock,                \* identity of the next GameEvent object created
    handled,              \* the handle_event calls made by the last operation, in order
    lastEv,               \* the last EventManager operation and its arguments
    query                 \* the last get_event_history call: its arguments and its result

evvars == <<_listeners, _global_listeners, _event_queue, _processing, _event_history,
            enabled, alive, next_ref, clock, handled, lastEv, query>>

VARIABLES
    states,               \* self.states: StateType -> object, 0 = no entry
    state_stack,          \* self.state_stack
    current_state,        \* self.current_state, 0 = None
    _pending_transition,  \* self._pending_transition, NoTransition = None
    state_history,        \* self.state_history
    active,               \* state.active of every object
    calls,                \* the state callbacks invoked by the last operation, in order
    lastOp                \* the last operation, its arguments and its outcome

smvars == <<states, state_stack, current_state, _pending_transition, state_history,
            active, calls, lastOp>>

VARIABLES
    time_manager          \* the TimeManager object and the log of its last operation

tmvars == <<time_manager>>

\* self.time_scale, game minutes per real second
time_scale == time_manager.time_scale

\* self.paused
paused == time_manager.paused

\* self.current_time
current_time == time_manager.current_time

\* self.last_time_of_day
last_time_of_day == time_manager.last_time_of_day

\* self.last_season
last_season == time_manager.last_season

\* self.current_weather: weather_type and duration_remaining
current_weather == time_manager.current_weather

\* self.temporal_events
temporal_events == time_manager.temporal_events

\* self.completed_events
completed_events == time_manager.completed_events

\* self.accumulated_time, in grains of a game minute
accumulated_time == time_manager.accumulated_time

\* identity of the next TemporalEvent object created
next_event == time_manager.next_event

\* the events the last operation handed to emit_event, in order
published == time_manager.published

\* the callbacks the last operation called, in order
fired == time_manager.fired

\* the last TimeManager operation, its argument, the operation before it,
\* what it returned and whether an exception left it
lastTm == time_manager.lastTm

\* sum of delta_time * time_scale over the updates not paused, in grains
elapsed == time_manager.elapsed

\* sum of the minutes of all advancement batches
advanced == time_manager.advanced

\* number of advancement batches
batches == time_manager.batches

vars == <<smvars, evvars, tmvars>>

(* ------------------------------------------------------------------ *)
(* The manager and its states as one value, so that a handler is the  *)
(* composition of the calls it makes                                  *)
(* ------------------------------------------------------------------ *)

\* the fields of the manager and of the state objects before an operation;
\* calls, ret, raised, queued describe the operation in progress
Self ==
    [states |-> states, state_stack |-> state_stack, current_state |-> current_state,
     _pending_transition |-> _pending_transition, state_history |-> state_history,
     active |-> active,
     calls |-> <<>>, ret |-> TRUE, raised |-> FALSE, queued |-> NoTransition]

Last(s) == s[Len(s)]

Front(s) == SubSeq(s, 1, Len(s) - 1)

\* a callback invocation: which method, on which object, with which
\* other state (previous_state / next_state) and which data argument.
\* The manager never reads state.data, it only writes it (in enter and in
\* back_to_state): the dictionaries it merges into a state are kept as
\* entries of this log.
Call(name, obj, other, d) == [name |-> name, obj |-> obj, other |-> other, data |-> d]

Log(m, c) == [m EXCEPT !.calls = Append(@, c)]

\* the non-immediate branch of change_state / push_state / pop_state
QueueTransition(m, type, target, d) ==
    [m EXCEPT !._pending_transition = [type |-> type, target |-> target, data |-> d]]

\* the guard at the head of change_state / push_state / pop_state
Accepted(m, type, target) ==
    IF type = "pop" THEN Len(m.state_stack) > 1 ELSE m.states[target] # NoObject

\* a callback named `name` runs its body: if it is the one that asks for a
\* transition, it calls change_state / push_state / pop_state(immediate=False)
CallbackRequest(m, name, cb) ==
    IF cb.on = name /\ Accepted(m, cb.type, cb.target)
    THEN LET q == QueueTransition(m, cb.type, cb.target, 0)
         IN  [q EXCEPT !.queued = q._pending_transition]
    ELSE m

\* GameState.enter
enter(m, o, previous_state, d, cb) ==
    LET m1 == [m EXCEPT !.active[o] = TRUE]
    IN  CallbackRequest(Log(m1, Call("enter", o, previous_state, d)), "enter", cb)

\* GameState.exit
exit(m, o, next_state, cb) ==
    LET m1 == [m EXCEPT !.active[o] = FALSE]
    IN  CallbackRequest(Log(m1, Call("exit", o, next_state, 0)), "exit", cb)

\* GameState.pause
pause(m, o, cb) == CallbackRequest(Log(m, Call("pause", o, NoObject, 0)), "pause", cb)

\* GameState.resume
resume(m, o, cb) == CallbackRequest(Log(m, Call("resume", o, NoObject, 0)), "resume", cb)

\* StateManager._add_to_history
_add_to_history(m, k) ==
    LET h == Append(m.state_history, k)
    IN  [m EXCEPT !.state_history = IF Len(h) > max_history THEN Tail(h) ELSE h]

\* StateManager._perform_state_change (the caller has checked that k is registered)
_perform_state_change(m, k, d, cb) ==
    LET new_state == m.states[k]
        m1 == IF m.current_state # NoObject THEN exit(m, m.current_state, new_state, cb) ELSE m
        m2 == [m1 EXCEPT !.state_stack = <<new_state>>, !.current_state = new_state]
        m3 == enter(m2, new_state, NoObject, d, cb)
    IN  _add_to_history(m3, k)

\* _perform_state_push with the can_pause test left out
_perform_state_push_always_pauses(m, k, d, cb) ==
    LET new_state == m.states[k]
        previous_state == m.current_state
        m1 == IF m.current_state # NoObject
              THEN pause(m, m.current_state, cb) ELSE m
        m2 == [m1 EXCEPT !.state_stack = Append(@, new_state), !.current_state = new_state]
        m3 == enter(m2, new_state, previous_state, d, cb)
    IN  _add_to_history(m3, k)

\* StateManager._perform_state_push
_perform_state_push(m, k, d, cb) ==
    LET new_state == m.states[k]
        previous_state == m.current_state
        m1 == IF m.current_state # NoObject /\ can_pause[m.current_state]
              THEN pause(m, m.current_state, cb) ELSE m
        m2 == [m1 EXCEPT !.state_stack = Append(@, new_state), !.current_state = new_state]
        m3 == enter(m2, new_state, previous_state, d, cb)
    IN  _add_to_history(m3, k)

\* _perform_state_pop that forgets to move current_state to the new top
_perform_state_pop_stale_current(m, cb) ==
    IF Len(m.state_stack) <= 1 THEN m
    ELSE LET top == Last(m.state_stack)
             m1 == [m EXCEPT !.state_stack = Front(@)]
             m2 == exit(m1, top, NoObject, cb)
         IN  IF m2.current_state # NoObject THEN resume(m2, m2.current_state, cb) ELSE m2

\* StateManager._perform_state_pop
_perform_state_pop(m, cb) ==
    IF Len(m.state_stack) <= 1 THEN m
    ELSE LET top == Last(m.state_stack)
             m1 == [m EXCEPT !.state_stack = Front(@)]
             m2 == exit(m1, top, NoObject, cb)
             m3 == [m2 EXCEPT !.current_state =
                        IF m2.state_stack # <<>> THEN Last(m2.state_stack) ELSE NoObject]
         IN  IF m3.current_state # NoObject THEN resume(m3, m3.current_state, cb) ELSE m3

\* StateManager.change_state
change_state(m, k, d, immediate, cb) ==
    IF m.states[k] = NoObject THEN [m EXCEPT !.ret = FALSE]
    ELSE IF immediate THEN [_perform_state_change(m, k, d, cb) EXCEPT !.ret = TRUE]
    ELSE [QueueTransition(m, "change", k, d) EXCEPT !.ret = TRUE]

\* push_state whose immediate branch falls through into the queueing branch
push_state_falls_through(m, k, d, immediate, cb) ==
    IF m.states[k] = NoObject THEN [m EXCEPT !.ret = FALSE]
    ELSE LET m1 == IF immediate THEN _perform_state_push(m, k, d, cb) ELSE m
         IN  [QueueTransition(m1, "push", k, d) EXCEPT !.ret = TRUE]

\* StateManager.push_state
push_state(m, k, d, immediate, cb) ==
    IF m.states[k] = NoObject THEN [m EXCEPT !.ret = FALSE]
    ELSE IF immediate THEN [_perform_state_push(m, k, d, cb) EXCEPT !.ret = TRUE]
    ELSE [QueueTransition(m, "push", k, d) EXCEPT !.ret = TRUE]

\* pop_state that refuses only on an empty stack
pop_state_guards_empty_only(m, immediate, cb) ==
    IF Len(m.state_stack) < 1 THEN [m EXCEPT !.ret = FALSE]
    ELSE IF immediate THEN [_perform_state_pop(m, cb) EXCEPT !.ret = TRUE]
    ELSE [QueueTransition(m, "pop", "none", 0) EXCEPT !.ret = TRUE]

\* StateManager.pop_state
pop_state(m, immediate, cb) ==
    IF Len(m.state_stack) <= 1 THEN [m EXCEPT !.ret = FALSE]
    ELSE IF immediate THEN [_perform_state_pop(m, cb) EXCEPT !.ret = TRUE]
    ELSE [QueueTransition(m, "pop", "none", 0) EXCEPT !.ret = TRUE]

RECURSIVE PopUntil(_, _, _)
\* the loop of back_to_state: pop_state(immediate=True) until the target is on top
PopUntil(m, target_index, cb) ==
    IF Len(m.state_stack) > target_index + 1
    THEN PopUntil(pop_state(m, TRUE, cb), target_index, cb)
    ELSE m

\* the search loop of back_to_state: 0-based index of the first stack entry
\* of kind k, -1 when there is none
TargetIndex(stack, k) ==
    LET found == {i \in 1..Len(stack) : state_type[stack[i]] = k}
    IN  IF found = {} THEN -1
        ELSE (CHOOSE i \in found : \A j \in found : i <= j) - 1

\* back_to_state that hands the data to the target through enter()
back_to_state_reenters(m, k, d, cb) ==
    LET target_index == TargetIndex(m.state_stack, k)
    IN  IF target_index = -1 THEN [m EXCEPT !.ret = FALSE]
        ELSE LET m1 == PopUntil(m, target_index, cb)
                 m2 == IF d # 0 /\ m1.current_state # NoObject
                       THEN enter(m1, m1.current_state, NoObject, d, cb)
                       ELSE m1
             IN  [m2 EXCEPT !.ret = TRUE]

\* StateManager.back_to_state
back_to_state(m, k, d, cb) ==
    LET target_index == TargetIndex(m.state_stack, k)
    IN  IF target_index = -1 THEN [m EXCEPT !.ret = FALSE]
        ELSE LET m1 == PopUntil(m, target_index, cb)
                 m2 == IF d # 0 /\ m1.current_state # NoObject
                       THEN Log(m1, Call("data.update", m1.current_state, NoObject, d))
                       ELSE m1
             IN  [m2 EXCEPT !.ret = TRUE]

RECURSIVE ExitAll(_, _)
\* the loop of clear_stack: pop every state off the list and exit() it
ExitAll(m, cb) ==
    IF m.state_stack # <<>>
    THEN LET state == Last(m.state_stack)
             m1 == [m EXCEPT !.state_stack = Front(@)]
         IN  ExitAll(exit(m1, state, NoObject, cb), cb)
    ELSE m

\* clear_stack that empties the stack before it looks the target up
clear_stack_exits_first(m, new_state, d, cb) ==
    IF m.states[new_state] = NoObject THEN [ExitAll(m, cb) EXCEPT !.ret = FALSE]
    ELSE change_state(ExitAll(m, cb), new_state, d, TRUE, cb)

\* StateManager.clear_stack
clear_stack(m, new_state, d, cb) ==
    IF m.states[new_state] = NoObject THEN [m EXCEPT !.ret = FALSE]
    ELSE change_state(ExitAll(m, cb), new_state, d, TRUE, cb)

\* update that clears the pending slot only after the transition has run
update_clears_late(m, cb) ==
    LET transition == m._pending_transition
        missing == transition.type \in {"change", "push"} /\ m.states[transition.target] = NoObject
        m2 == IF transition = NoTransition THEN m
              ELSE IF transition.type = "change"
                   THEN _perform_state_change(m, transition.target, transition.data, cb)
              ELSE IF transition.type = "push"
                   THEN _perform_state_push(m, transition.target, transition.data, cb)
              ELSE _perform_state_pop(m, cb)
        m3 == [m2 EXCEPT !._pending_transition = NoTransition]
    IN  IF transition # NoTransition /\ missing THEN [m EXCEPT !.raised = TRUE]
        ELSE IF m3.current_state # NoObject /\ m3.active[m3.current_state]
             THEN Log(m3, Call("update", m3.current_state, NoObject, 0))
             ELSE m3

\* StateManager.update: self.states[target] raises KeyError when the target
\* of the pending change / push is no longer registered
update(m, cb) ==
    LET transition == m._pending_transition
        m1 == [m EXCEPT !._pending_transition = NoTransition]
        missing == transition.type \in {"change", "push"} /\ m.states[transition.target] = NoObject
        m2 == IF transition = NoTransition THEN m
              ELSE IF transition.type = "change"
                   THEN _perform_state_change(m1, transition.target, transition.data, cb)
              ELSE IF transition.type = "push"
                   THEN _perform_state_push(m1, transition.target, transition.data, cb)
              ELSE _perform_state_pop(m1, cb)
    IN  IF transition # NoTransition /\ missing THEN [m1 EXCEPT !.raised = TRUE]
        ELSE IF m2.current_state # NoObject /\ m2.active[m2.current_state]
             THEN Log(m2, Call("update", m2.current_state, NoObject, 0))
             ELSE m2

\* the first loop of render: 1-based index of the entry rendering starts at
StartIndex(stack) ==
    LET plain == {i \in 1..Len(stack) : ~overlay[stack[i]]}
    IN  IF plain = {} THEN Len(stack)
        ELSE CHOOSE i \in plain : \A j \in plain : j <= i

RECURSIVE RenderFrom(_, _)
\* the second loop of render, from index i upwards
RenderFrom(m, i) ==
    IF i > Len(m.state_stack) THEN m
    ELSE LET state == m.state_stack[i]
         IN  RenderFrom(IF m.active[state] THEN Log(m, Call("render", state, NoObject, 0)) ELSE m, i + 1)

\* StateManager.render
render(m) ==
    IF m.state_stack = <<>> THEN m
    ELSE RenderFrom(m, StartIndex(m.state_stack))

RECURSIVE OfferFrom(_, _, _)
\* the loop of handle_event over reversed(state_stack), from index i downwards;
\* consumers = the states whose handle_event returns True for this event
OfferFrom(m, i, consumers) ==
    IF i < 1 THEN [m EXCEPT !.ret = FALSE]
    ELSE LET state == m.state_stack[i]
         IN  IF m.active[state] /\ ~blocks_input[state]
             THEN LET m1 == Log(m, Call("handle_event", state, NoObject, 0))
                  IN  IF state \in consumers THEN [m1 EXCEPT !.ret = TRUE]
                      ELSE OfferFrom(m1, i - 1, consumers)
             ELSE OfferFrom(m, i - 1, consumers)

\* StateManager.handle_event
handle_event(m, consumers) == OfferFrom(m, Len(m.state_stack), consumers)

\* StateManager.register_state
register_state(m, o) == [m EXCEPT !.states[state_type[o]] = o]

\* StateManager.unregister_state (GameState.cleanup does nothing)
unregister_state(m, k) ==
    IF m.states[k] # NoObject THEN [m EXCEPT !.states[k] = NoObject] ELSE m

\* StateManager.cleanup; the pending transition is not touched
cleanup(m) ==
    [m EXCEPT !.states = [k \in StateType |-> NoObject],
              !.state_stack = <<>>,
              !.current_state = NoObject]

(* ------------------------------------------------------------------ *)
(* The state machine                                                  *)
(* ------------------------------------------------------------------ *)

\* event_type=None of get_event_history: no filter
NoFilter == "any"

\* no get_event_history call was the last operation
NoQuery == [event_type |-> "none", limit |-> 0, result |-> <<>>]

\* EventManager.__init__: no subscriber, nothing queued, nothing dispatched
EventManagerInit ==
    /\ _listeners = [k \in EventType |-> <<>>]
    /\ _global_listeners = <<>>
    /\ _event_queue = <<>>
    /\ _processing = FALSE
    /\ _event_history = <<>>
    /\ enabled = [l \in Listeners |-> TRUE]
    /\ alive = [l \in Listeners |-> TRUE]
    /\ next_ref = 1
    /\ clock = 1
    /\ handled = <<>>
    /\ lastEv = [op |-> "init", event_type |-> "none", immediate |-> FALSE, listener |-> 0]
    /\ query = NoQuery

\* StateManager.__init__, with the state objects constructed but not yet registered
StateManagerInit ==
    /\ states = [k \in StateType |-> NoObject]
    /\ state_stack = <<>>
    /\ current_state = NoObject
    /\ _pending_transition = NoTransition
    /\ state_history = <<>>
    /\ active = [o \in Objects |-> FALSE]
    /\ calls = <<>>
    /\ lastOp = [op |-> "init", target |-> "none", data |-> 0, immediate |-> FALSE,
                 ret |-> TRUE, raised |-> FALSE, queued |-> NoTransition]

\* GameTime.total_minutes
total_minutes(t) ==
    (t.year - 1) * 365 * 24 * 60 +
    (t.month - 1) * 30 * 24 * 60 +
    (t.day - 1) * 24 * 60 +
    t.hour * 60 +
    t.minute

\* GameTime.get_time_of_day
get_time_of_day(t) ==
    IF 5 <= t.hour /\ t.hour < 7 THEN "dawn"
    ELSE IF 7 <= t.hour /\ t.hour < 10 THEN "morning"
    ELSE IF 10 <= t.hour /\ t.hour < 14 THEN "midday"
    ELSE IF 14 <= t.hour /\ t.hour < 17 THEN "afternoon"
    ELSE IF 17 <= t.hour /\ t.hour < 19 THEN "dusk"
    ELSE IF 19 <= t.hour /\ t.hour < 22 THEN "evening"
    ELSE IF (22 <= t.hour /\ t.hour < 24) \/ (0 <= t.hour /\ t.hour < 2) THEN "night"
    ELSE "midnight"

\* GameTime.get_season
get_season(t) ==
    IF 3 <= t.month /\ t.month <= 5 THEN "spring"
    ELSE IF 6 <= t.month /\ t.month <= 8 THEN "summer"
    ELSE IF 9 <= t.month /\ t.month <= 11 THEN "autumn"
    ELSE "winter"

\* WeatherCondition(): clear weather with no duration left
WeatherCondition == [weather_type |-> "clear", duration_remaining |-> 0]

\* TimeManager.__init__(time_scale): the fields of the new manager, and
\* the queue and the event counter of the new EventManager it hands its
\* events to
TimeManager(scale) ==
    [time_scale |-> scale, paused |-> FALSE, current_time |-> GameTime(1, 1, 1, 6, 0),
     last_time_of_day |-> get_time_of_day(GameTime(1, 1, 1, 6, 0)),
     last_season |-> get_season(GameTime(1, 1, 1, 6, 0)),
     current_weather |-> WeatherCondition, temporal_events |-> <<>>,
     completed_events |-> <<>>, accumulated_time |-> 0, next_event |-> 1,
     _event_queue |-> <<>>, clock |-> 1, published |-> <<>>, fired |-> <<>>,
     ret |-> FALSE, raised |-> FALSE,
     elapsed |-> 0, advanced |-> 0, batches |-> 0]

\* the time manager is m and its last operation was op
TimeManagerIs(m, op) ==
    time_manager =
        [time_scale |-> m.time_scale, paused |-> m.paused, current_time |-> m.current_time,
         last_time_of_day |-> m.last_time_of_day, last_season |-> m.last_season,
         current_weather |-> m.current_weather, temporal_events |-> m.temporal_events,
         completed_events |-> m.completed_events, accumulated_time |-> m.accumulated_time,
         next_event |-> m.next_event, published |-> m.published, fired |-> m.fired,
         lastTm |-> [op |-> op, arg |-> 0, before |-> "none", ret |-> FALSE,
                     raised |-> FALSE],
         elapsed |-> m.elapsed, advanced |-> m.advanced, batches |-> m.batches]

\* TimeManager(): one game hour per real minute
TimeManagerInit == TimeManagerIs(TimeManager(60), "init")

\* the program after the managers are constructed
Init == StateManagerInit /\ EventManagerInit /\ TimeManagerInit

\* the operation returns: its effects become the new state
Return(m, op, target, d, immediate) ==
    /\ states' = m.states
    /\ state_stack' = m.state_stack
    /\ current_state' = m.current_state
    /\ _pending_transition' = m._pending_transition
    /\ state_history' = m.state_history
    /\ active' = m.active
    /\ calls' = m.calls
    /\ lastOp' = [op |-> op, target |-> target, data |-> d, immediate |-> immediate,
                  ret |-> m.ret, raised |-> m.raised, queued |-> m.queued]
    /\ UNCHANGED <<evvars, tmvars>>

\* the model stops applying changes and pushes at its bound
RoomFor(type) ==
    type \in {"change", "push"} => Len(state_history) < MaxTransitions

RegisterState ==
    \E o \in Objects :
        Return(register_state(Self, o), "register_state", state_type[o], 0, FALSE)

UnregisterState ==
    \E k \in StateType :
        Return(unregister_state(Self, k), "unregister_state", k, 0, FALSE)

ChangeState ==
    \E k \in StateType, d \in DataValues, immediate \in BOOLEAN, cb \in CallbackRequests :
        /\ immediate => RoomFor("change")
        /\ ~immediate => cb = NoCallbackRequest
        /\ Return(change_state(Self, k, d, immediate, cb), "change_state", k, d, immediate)

PushState ==
    \E k \in StateType, d \in DataValues, immediate \in BOOLEAN, cb \in CallbackRequests :
        /\ immediate => RoomFor("push")
        /\ ~immediate => cb = NoCallbackRequest
        /\ Return(push_state(Self, k, d, immediate, cb), "push_state", k, d, immediate)

PopState ==
    \E immediate \in BOOLEAN, cb \in CallbackRequests :
        /\ ~immediate => cb = NoCallbackRequest
        /\ Return(pop_state(Self, immediate, cb), "pop_state", "none", 0, immediate)

BackToState ==
    \E k \in StateType, d \in DataValues :
        Return(back_to_state(Self, k, d, NoCallbackRequest), "back_to_state", k, d, TRUE)

ClearStack ==
    \E k \in StateType, d \in DataValues :
        /\ RoomFor("change")
        /\ Return(clear_stack(Self, k, d, NoCallbackRequest), "clear_stack", k, d, TRUE)

Update ==
    \E cb \in CallbackRequests :
        /\ RoomFor(_pending_transition.type)
        /\ Return(update(Self, cb), "update", "none", 0, FALSE)

Render ==
    Return(render(Self), "render", "none", 0, FALSE)

HandleEvent ==
    \E consumers \in SUBSET Objects :
        Return(handle_event(Self, consumers), "handle_event", "none", 0, FALSE)

Cleanup ==
    Return(cleanup(Self), "cleanup", "none", 0, FALSE)

Next ==
    \/ RegisterState
    \/ UnregisterState
    \/ ChangeState
    \/ PushState
    \/ PopState
    \/ BackToState
    \/ ClearStack
    \/ Update
    \/ Render
    \/ HandleEvent
    \/ Cleanup

Spec == Init /\ [][Next]_vars

(* ------------------------------------------------------------------ *)
(* Vocabulary of the properties                                       *)
(* ------------------------------------------------------------------ *)

\* the callbacks named `name` in a call log, in order
CallsNamed(cs, name) == SelectSeq(cs, LAMBDA c : c.name = name)

\* how often callback `name` was invoked on object o
CountCalls(cs, name, o) ==
    Cardinality({i \in 1..Len(cs) : cs[i].name = name /\ cs[i].obj = o})

\* the call log without the per-frame update(dt) call that ends an update()
Lifecycle(cs) == SelectSeq(cs, LAMBDA c : c.name # "update")

TransitionOps == {"change_state", "push_state", "pop_state"}

\* this step is update() finding a pending transition of the given type
\* whose target it can look up
UpdateApplies(type) ==
    /\ lastOp'.op = "update"
    /\ ~lastOp'.raised
    /\ _pending_transition.type = type

\* this step applies a push: push_state(immediate=True) or update() with a pending push
PushApplied ==
    \/ lastOp'.op = "push_state" /\ lastOp'.immediate /\ lastOp'.ret
    \/ UpdateApplies("push")

\* this step applies a pop to a stack of at least two entries
PopApplied ==
    \/ lastOp'.op = "pop_state" /\ lastOp'.immediate /\ lastOp'.ret
    \/ UpdateApplies("pop") /\ Len(state_stack) > 1

\* this step applies a change: change_state(immediate=True) or update() with a pending change
ChangeApplied ==
    \/ lastOp'.op = "change_state" /\ lastOp'.immediate /\ lastOp'.ret
    \/ UpdateApplies("change")

\* kind and data of the transition this step applies
AppliedTarget == IF lastOp'.op = "update" THEN _pending_transition.target ELSE lastOp'.target

AppliedData == IF lastOp'.op = "update" THEN _pending_transition.data ELSE lastOp'.data

\* the slot after an operation that itself does not write it: what a callback
\* queued while the operation ran, or else the given content
SlotAfter(content) ==
    IF lastOp'.queued # NoTransition THEN lastOp'.queued ELSE content

TypeOK ==
    /\ states \in [StateType -> Objects \cup {NoObject}]
    /\ Len(state_stack) <= MaxTransitions
    /\ Len(state_history) <= MaxTransitions

(* ------------------------------------------------------------------ *)
(* C1                                                                 *)
(* ------------------------------------------------------------------ *)

\* C1: once the stack is non-empty, no push_state / pop_state request
\* (queued or immediate) and no update() leaves it with fewer than one
\* entry; pop_state on a stack of one entry or none returns False and
\* changes neither the stack nor the pending transition.
TheoremC1 ==
    [][/\ (lastOp'.op \in {"push_state", "pop_state", "update"} /\ Len(state_stack) >= 1)
            => Len(state_stack') >= 1
       /\ (lastOp'.op = "pop_state" /\ Len(state_stack) <= 1)
            => /\ lastOp'.ret = FALSE
               /\ state_stack' = state_stack
               /\ _pending_transition' = _pending_transition]_vars

\* pop_state has just been refused on a stack of exactly one state while a
\* transition was pending
WitnessC1 ==
    /\ lastOp.op = "pop_state"
    /\ lastOp.ret = FALSE
    /\ Len(state_stack) = 1
    /\ _pending_transition # NoTransition

(* ------------------------------------------------------------------ *)
(* C2                                                                 *)
(* ------------------------------------------------------------------ *)

\* C2: when a push of target T is applied while P is current, P.pause() is
\* called exactly once if P.can_pause and not at all otherwise, P stays
\* directly below T, T becomes current and T.enter receives P as previous
\* state; when a pop is applied, T.exit() is called exactly once, T is
\* removed, P becomes current and P.resume() is called exactly once.
TheoremC2 ==
    [][/\ (PushApplied /\ current_state # NoObject) =>
            LET P == current_state
                T == states[AppliedTarget]
            IN  /\ CallsNamed(calls', "pause") =
                       IF can_pause[P] THEN <<Call("pause", P, NoObject, 0)>> ELSE <<>>
                /\ state_stack' = Append(state_stack, T)
                /\ state_stack'[Len(state_stack') - 1] = P
                /\ current_state' = T
                /\ CallsNamed(calls', "enter") = <<Call("enter", T, P, AppliedData)>>
                /\ CallsNamed(calls', "exit") = <<>>
       /\ PopApplied =>
            LET T == Last(state_stack)
                P == state_stack[Len(state_stack) - 1]
            IN  /\ Lifecycle(calls') = <<Call("exit", T, NoObject, 0), Call("resume", P, NoObject, 0)>>
                /\ state_stack' = Front(state_stack)
                /\ current_state' = P]_vars

\* a pop has just been applied to a stack that two pushes had built
WitnessC2 ==
    /\ lastOp.op = "pop_state"
    /\ lastOp.immediate
    /\ lastOp.ret
    /\ Len(state_stack) = 2
    /\ CallsNamed(calls, "resume") # <<>>

(* ------------------------------------------------------------------ *)
(* C3                                                                 *)
(* ------------------------------------------------------------------ *)

\* C3: when a change to a registered target is applied on a stack of any
\* depth, exit() is invoked on every state that was on the stack and
\* pause() on none, the stack afterwards contains exactly the target, and
\* the target's enter() is called once with the supplied data.
ClaimC3 ==
    [][ChangeApplied =>
          /\ \A i \in 1..Len(state_stack) : CountCalls(calls', "exit", state_stack[i]) >= 1
          /\ CallsNamed(calls', "pause") = <<>>
          /\ state_stack' = <<states[AppliedTarget]>>
          /\ CallsNamed(calls', "enter") =
                 <<Call("enter", states[AppliedTarget], NoObject, AppliedData)>>]_vars

(* ------------------------------------------------------------------ *)
(* C4                                                                 *)
(* ------------------------------------------------------------------ *)

\* the stack a transition of the given type and target leaves behind
StackAfter(type, target) ==
    IF type = "change" THEN <<states[target]>>
    ELSE IF type = "push" THEN Append(state_stack, states[target])
    ELSE IF type = "pop" /\ Len(state_stack) > 1 THEN Front(state_stack)
    ELSE state_stack

\* C4: at most one transition is pending at any time: an accepted
\* non-immediate request only overwrites the slot, the next update() applies
\* what the slot holds (the last accepted request) and nothing else, and a
\* request with immediate=true is applied before the call returns and does
\* not write the slot (it holds afterwards what it held before, unless a
\* state callback that ran during the transition queued a request itself).
TheoremC4 ==
    [][/\ (lastOp'.op \in TransitionOps /\ ~lastOp'.immediate /\ lastOp'.ret) =>
            /\ _pending_transition' =
                   [type |-> IF lastOp'.op = "change_state" THEN "change"
                             ELSE IF lastOp'.op = "push_state" THEN "push" ELSE "pop",
                    target |-> lastOp'.target, data |-> lastOp'.data]
            /\ UNCHANGED <<state_stack, current_state, state_history, active>>
            /\ calls' = <<>>
       /\ (lastOp'.op = "update" /\ ~lastOp'.raised) =>
            /\ state_stack' = StackAfter(_pending_transition.type, _pending_transition.target)
            /\ Len(CallsNamed(calls', "enter")) =
                   IF _pending_transition.type \in {"change", "push"} THEN 1 ELSE 0
            /\ _pending_transition' = SlotAfter(NoTransition)
       /\ (lastOp'.op \in TransitionOps /\ lastOp'.immediate /\ lastOp'.ret) =>
            /\ state_stack' =
                   StackAfter(IF lastOp'.op = "change_state" THEN "change"
                              ELSE IF lastOp'.op = "push_state" THEN "push" ELSE "pop",
                              lastOp'.target)
            /\ _pending_transition' = SlotAfter(_pending_transition)]_vars

\* an immediate push has just been applied while a change was pending,
\* and the change is still pending
WitnessC4 ==
    /\ lastOp.op = "push_state"
    /\ lastOp.immediate
    /\ lastOp.ret
    /\ lastOp.queued = NoTransition
    /\ _pending_transition.type = "change"
    /\ Len(state_stack) = 2

(* ------------------------------------------------------------------ *)
(* C5                                                                 *)
(* ------------------------------------------------------------------ *)

\* C5: each update() applies at most one queued transition and clears the
\* slot before that transition runs: a non-immediate transition that a
\* state callback requests while the transition is applied is not applied
\* in the same update() but is pending afterwards; after the transition
\* step update(dt) is invoked on the current top if and only if a current
\* state exists and is marked active.
TheoremC5 ==
    [][(lastOp'.op = "update" /\ ~lastOp'.raised) =>
          /\ Len(CallsNamed(calls', "enter")) <= 1
          /\ Len(CallsNamed(calls', "exit")) <= 1
          /\ state_stack' = StackAfter(_pending_transition.type, _pending_transition.target)
          /\ _pending_transition' = lastOp'.queued
          /\ CallsNamed(calls', "update") =
                 IF current_state' # NoObject /\ active'[current_state']
                 THEN <<Call("update", current_state', NoObject, 0)>> ELSE <<>>
          /\ CallsNamed(calls', "update") # <<>> => Last(calls') = Call("update", current_state', NoObject, 0)]_vars

\* update() has just applied a push during which a callback queued a
\* change, and that change is now pending
WitnessC5 ==
    /\ lastOp.op = "update"
    /\ lastOp.queued # NoTransition
    /\ _pending_transition = lastOp.queued
    /\ Len(state_stack) = 2
    /\ CallsNamed(calls, "update") # <<>>

(* ------------------------------------------------------------------ *)
(* C6                                                                 *)
(* ------------------------------------------------------------------ *)

\* the request of this step is one the manager must refuse
MustFail ==
    \/ lastOp'.op \in {"change_state", "push_state", "clear_stack"} /\ states[lastOp'.target] = NoObject
    \/ lastOp'.op = "pop_state" /\ Len(state_stack) <= 1
    \/ lastOp'.op = "back_to_state"
           /\ \A i \in 1..Len(state_stack) : state_type[state_stack[i]] # lastOp'.target

\* C6: every failing transition request (change_state / push_state /
\* clear_stack to an unregistered kind, pop_state with at most one stacked
\* state, back_to_state for a kind not on the stack) returns False, leaves
\* the registry, the stack, the current state, the pending transition and
\* the history unchanged and calls no state callback.
TheoremC6 ==
    [][/\ MustFail => lastOp'.ret = FALSE
       /\ (lastOp'.op \in TransitionOps \cup {"back_to_state", "clear_stack"} /\ lastOp'.ret = FALSE) =>
            /\ MustFail
            /\ UNCHANGED <<states, state_stack, current_state, _pending_transition,
                           state_history, active>>
            /\ calls' = <<>>]_vars

\* clear_stack to an unregistered kind has just been refused on a stack of
\* two states with a transition pending
WitnessC6 ==
    /\ lastOp.op = "clear_stack"
    /\ lastOp.ret = FALSE
    /\ Len(state_stack) = 2
    /\ _pending_transition # NoTransition

(* ------------------------------------------------------------------ *)
(* C7                                                                 *)
(* ------------------------------------------------------------------ *)

\* C7: handle_event offers the event to the stacked states from top to
\* bottom and stops at the first state that reports it consumed; a state
\* below an active state with blocks_input set is never offered the event.
ClaimC7 ==
    lastOp.op = "handle_event" =>
        \A i \in 1..Len(state_stack), j \in 1..Len(state_stack) :
            (i < j /\ active[state_stack[j]] /\ blocks_input[state_stack[j]])
                => CountCalls(calls, "handle_event", state_stack[i]) = 0

(* ------------------------------------------------------------------ *)
(* C8                                                                 *)
(* ------------------------------------------------------------------ *)

\* the active states of the stack from index i up to the top, bottom first
RECURSIVE ActiveFrom(_)
ActiveFrom(i) ==
    IF i > Len(state_stack) THEN <<>>
    ELSE (IF active[state_stack[i]] THEN <<state_stack[i]>> ELSE <<>>) \o ActiveFrom(i + 1)

\* C8: render() starts at the deepest stack entry that is not marked
\* overlay and renders, bottom to top, exactly the active states from that
\* entry up to the top of the stack.
ClaimC8 ==
    (lastOp.op = "render" /\ \E i \in 1..Len(state_stack) : ~overlay[state_stack[i]]) =>
        LET plain == {i \in 1..Len(state_stack) : ~overlay[state_stack[i]]}
            deepest == CHOOSE i \in plain : \A j \in plain : i <= j
        IN  [n \in 1..Len(calls) |-> calls[n].obj] = ActiveFrom(deepest)

(* ------------------------------------------------------------------ *)
(* C9                                                                 *)
(* ------------------------------------------------------------------ *)

\* C9: after every public operation returns, current_state is the last
\* element of state_stack when the stack is non-empty and None when it is
\* empty.
TheoremC9 ==
    current_state = IF state_stack # <<>> THEN Last(state_stack) ELSE NoObject

\* back_to_state has just popped its way down to a state that was two
\* entries below the top
WitnessC9 ==
    /\ lastOp.op = "back_to_state"
    /\ lastOp.ret
    /\ Len(CallsNamed(calls, "exit")) = 2
    /\ Len(state_stack) = 1

(* ------------------------------------------------------------------ *)
(* C10                                                                *)
(* ------------------------------------------------------------------ *)

\* C10: every state on the stack is the state currently stored in the
\* registry under its kind.
ClaimC10 ==
    \A i \in 1..Len(state_stack) : states[state_type[state_stack[i]]] = state_stack[i]

(* ------------------------------------------------------------------ *)
(* C11                                                                *)
(* ------------------------------------------------------------------ *)

ClaimC12 ==
    [][(lastOp'.op = "clear_stack" /\ lastOp'.ret) =>
          /\ \A o \in Objects :
                 CountCalls(calls', "exit", o) =
                     Cardinality({i \in 1..Len(state_stack) : state_stack[i] = o})
          /\ state_stack' = <<states[lastOp'.target]>>
          /\ current_state' = states[lastOp'.target]
          /\ CallsNamed(calls', "enter") =
                 <<Call("enter", states[lastOp'.target], NoObject, lastOp'.data)>>]_vars


(* ================================================================== *)
(* EventManager                                                       *)
(* ================================================================== *)

\* event.source of an event the game emitted (source=None)
NoSource == 0

\* the manager as the code of one operation sees and changes it, with the
\* handle_event calls made so far, the local variable `consumed` of the
\* _process_event call that is running, the listeners that were destroyed
\* during the operation and the listener whose owner a handler may destroy
EvSelf ==
    [_listeners |-> _listeners, _global_listeners |-> _global_listeners,
     _event_queue |-> _event_queue, _processing |-> _processing,
     _event_history |-> _event_history, next_ref |-> next_ref, clock |-> clock,
     handled |-> <<>>, consumed |-> FALSE, dead |-> {}, victim |-> 0]

\* listener_ref() is None: the listener object no longer exists
Gone(m, l) == ~alive[l] \/ l \in m.dead

\* weakref.ref(listener, ...): a new reference object to the listener
Ref(m, l) == [listener |-> l, id |-> m.next_ref]

\* key=lambda ref: ref().priority if ref() else -999
Key(ref) == IF alive[ref.listener] THEN priority[ref.listener] ELSE DeadKey

\* an insertion that puts x in front of the entries of equal key
Insert_before_equals(sorted, x) ==
    LET n == Cardinality({i \in 1..Len(sorted) : Key(sorted[i]) > Key(x)})
    IN  SubSeq(sorted, 1, n) \o <<x>> \o SubSeq(sorted, n + 1, Len(sorted))

\* one insertion of list.sort(key=Key, reverse=True): x goes behind every
\* entry whose key is at least its own
Insert(sorted, x) ==
    LET n == Cardinality({i \in 1..Len(sorted) : Key(sorted[i]) >= Key(x)})
    IN  SubSeq(sorted, 1, n) \o <<x>> \o SubSeq(sorted, n + 1, Len(sorted))

RECURSIVE sort(_)
\* list.sort(key=Key, reverse=True): descending by key, equal keys keep their order
sort(refs) ==
    IF refs = <<>> THEN <<>> ELSE Insert(sort(Front(refs)), Last(refs))

\* EventManager.subscribe(event_type, listener)
subscribe(m, k, l) ==
    [m EXCEPT !._listeners[k] = sort(Append(@, Ref(m, l))), !.next_ref = @ + 1]

\* EventManager.subscribe_global(listener)
subscribe_global(m, l) ==
    [m EXCEPT !._global_listeners = sort(Append(@, Ref(m, l))), !.next_ref = @ + 1]

\* an unsubscribe that removes the first entry of the listener only
unsubscribe_first_entry(m, k, l) ==
    LET refs == m._listeners[k]
        at == {i \in 1..Len(refs) : refs[i].listener = l}
    IN  IF at = {} THEN m
        ELSE LET first == CHOOSE i \in at : \A j \in at : i <= j
             IN  [m EXCEPT !._listeners[k] =
                     SubSeq(refs, 1, first - 1) \o SubSeq(refs, first + 1, Len(refs))]

\* EventManager.unsubscribe(event_type, listener)
unsubscribe(m, k, l) ==
    [m EXCEPT !._listeners[k] =
        SelectSeq(@, LAMBDA ref : alive[ref.listener] /\ ref.listener # l)]

\* EventManager.unsubscribe_global(listener)
unsubscribe_global(m, l) ==
    [m EXCEPT !._global_listeners =
        SelectSeq(@, LAMBDA ref : alive[ref.listener] /\ ref.listener # l)]

\* GameEvent(event_type, data, timestamp, source): a new event object
GameEvent(m, k, source) == [event_type |-> k, id |-> m.clock, source |-> source]

\* emit(..., immediate=False): the event joins the tail of the queue
Enqueue(m, k, source) ==
    [m EXCEPT !._event_queue = Append(@, GameEvent(m, k, source)), !.clock = @ + 1]

\* one record of the log of handle_event calls: who was called with which
\* event, through which list, what self._processing was, what the handler did
Handled(m, l, event, via, did) ==
    [listener |-> l, event |-> event.id, via |-> via,
     processing |-> m._processing, did |-> did]

\* EventManager._cleanup_listener(ref): the callback of a reference made by subscribe
_cleanup_listener(m, ref) ==
    [m EXCEPT !._listeners =
        [k \in EventType |-> SelectSeq(m._listeners[k], LAMBDA r : r # ref)]]

\* EventManager._cleanup_global_listener(ref): the callback of a reference
\* made by subscribe_global
_cleanup_global_listener(m, ref) ==
    [m EXCEPT !._global_listeners = SelectSeq(@, LAMBDA r : r # ref)]

RECURSIVE Finalize(_, _, _)
\* the callbacks of the references in refs that point to listener l run, one by one
Finalize(m, refs, l) ==
    IF refs = <<>> THEN m
    ELSE LET ref == Head(refs)
             m1  == IF ref.listener # l THEN m
                    ELSE IF \E i \in 1..Len(m._global_listeners) : m._global_listeners[i] = ref
                    THEN _cleanup_global_listener(m, ref)
                    ELSE _cleanup_listener(m, ref)
         IN  Finalize(m1, Tail(refs), l)

RECURSIVE Flatten(_, _)
\* the references of the subscriber lists of the kinds in ks, one list after the other
Flatten(lists, ks) ==
    IF ks = {} THEN <<>>
    ELSE LET k == CHOOSE x \in ks : TRUE
         IN  lists[k] \o Flatten(lists, ks \ {k})

\* the last strong reference to listener l is dropped: the object goes,
\* every weak reference to it is dead and its callback runs
destroy(m, l) ==
    IF l \notin Listeners \/ Gone(m, l) THEN m
    ELSE Finalize([m EXCEPT !.dead = @ \cup {l}],
                  m._global_listeners \o Flatten(m._listeners, EventType), l)

RECURSIVE process_events(_, _)
RECURSIVE _process_event(_, _, _)
RECURSIVE Notify(_, _, _, _, _, _)
RECURSIVE Drain(_, _)

\* listener.handle_event(event) for a handler that behaves as `did`
listener_handle_event(m, l, event, did, beh) ==
    CASE did = "emit" ->
            IF event.source = NoSource THEN Enqueue(m, event.event_type, l) ELSE m
      [] did = "reemit" -> Enqueue(m, event.event_type, l)
      [] did = "drain" -> process_events(m, beh)
      [] did = "destroy" -> IF m.victim = l THEN m ELSE destroy(m, m.victim)
      [] OTHER -> m

\* a loop that a raising handler ends
Notify_stops_on_raise(m, event, refs, i, via, beh) ==
    IF i > Len(refs) THEN m
    ELSE LET l == refs[i].listener
         IN  IF Gone(m, l) \/ ~enabled[l]
             THEN Notify(m, event, refs, i + 1, via, beh)
             ELSE LET m1 == [m EXCEPT !.handled = Append(@, Handled(m, l, event, via, beh[l]))]
                      m2 == listener_handle_event(m1, l, event, beh[l], beh)
                  IN  CASE beh[l] = "consume" -> [m2 EXCEPT !.consumed = TRUE]
                        [] beh[l] = "raise" -> m2
                        [] OTHER -> Notify([m2 EXCEPT !.consumed = FALSE],
                                           event, refs, i + 1, via, beh)

\* a loop that does not look whether the listener still exists
Notify_calls_dead(m, event, refs, i, via, beh) ==
    IF i > Len(refs) THEN m
    ELSE LET l == refs[i].listener
         IN  IF ~enabled[l]
             THEN Notify(m, event, refs, i + 1, via, beh)
             ELSE LET m1 == [m EXCEPT !.handled = Append(@, Handled(m, l, event, via, beh[l]))]
                      m2 == listener_handle_event(m1, l, event, beh[l], beh)
                  IN  IF beh[l] = "consume"
                      THEN [m2 EXCEPT !.consumed = TRUE]
                      ELSE Notify([m2 EXCEPT !.consumed = FALSE], event, refs, i + 1, via, beh)

\* the loop of _process_event over a copy of one subscriber list, from entry i
Notify(m, event, refs, i, via, beh) ==
    IF i > Len(refs) THEN m
    ELSE LET l == refs[i].listener
         IN  IF Gone(m, l) \/ ~enabled[l]
             THEN Notify(m, event, refs, i + 1, via, beh)
             ELSE LET m1 == [m EXCEPT !.handled = Append(@, Handled(m, l, event, via, beh[l]))]
                      m2 == listener_handle_event(m1, l, event, beh[l], beh)
                  IN  IF beh[l] = "consume"
                      THEN [m2 EXCEPT !.consumed = TRUE]
                      ELSE Notify([m2 EXCEPT !.consumed = FALSE], event, refs, i + 1, via, beh)

\* a dispatch that drops the newest event when the history is full
_process_event_drops_newest(m, event, beh) ==
    LET h  == Append(m._event_history, event)
        m1 == [m EXCEPT !._event_history = IF Len(h) > _max_history THEN Front(h) ELSE h,
                        !.consumed = FALSE]
        m2 == Notify(m1, event, m1._global_listeners, 1, "global", beh)
    IN  IF ~m2.consumed
        THEN Notify(m2, event, m2._listeners[event.event_type], 1, "kind", beh)
        ELSE m2

\* a dispatch that offers the event to the kind's subscribers even after a
\* global subscriber consumed it
_process_event_ignores_consumed(m, event, beh) ==
    LET h  == Append(m._event_history, event)
        m1 == [m EXCEPT !._event_history = IF Len(h) > _max_history THEN Tail(h) ELSE h,
                        !.consumed = FALSE]
        m2 == Notify(m1, event, m1._global_listeners, 1, "global", beh)
    IN  Notify(m2, event, m2._listeners[event.event_type], 1, "kind", beh)

\* EventManager._process_event(event)
_process_event(m, event, beh) ==
    LET h  == Append(m._event_history, event)
        m1 == [m EXCEPT !._event_history = IF Len(h) > _max_history THEN Tail(h) ELSE h,
                        !.consumed = FALSE]
        m2 == Notify(m1, event, m1._global_listeners, 1, "global", beh)
    IN  IF ~m2.consumed
        THEN Notify(m2, event, m2._listeners[event.event_type], 1, "kind", beh)
        ELSE m2

\* a drain that takes the newest queued event first
Drain_newest_first(m, beh) ==
    IF m._event_queue = <<>> THEN m
    ELSE Drain(_process_event([m EXCEPT !._event_queue = Front(@)],
                              Last(m._event_queue), beh), beh)

\* the while loop of process_events
Drain(m, beh) ==
    IF m._event_queue = <<>> THEN m
    ELSE Drain(_process_event([m EXCEPT !._event_queue = Tail(@)],
                              Head(m._event_queue), beh), beh)

\* process_events without the guard against re-entry
process_events_unguarded(m, beh) ==
    [Drain([m EXCEPT !._processing = TRUE], beh) EXCEPT !._processing = FALSE]

\* EventManager.process_events()
process_events(m, beh) ==
    IF m._processing THEN m
    ELSE [Drain([m EXCEPT !._processing = TRUE], beh) EXCEPT !._processing = FALSE]

\* an emit that dispatches the event at once and queues it as well
emit_queues_always(m, k, immediate, beh) ==
    IF immediate
    THEN Enqueue(_process_event([m EXCEPT !.clock = @ + 1], GameEvent(m, k, NoSource), beh),
                 k, NoSource)
    ELSE Enqueue(m, k, NoSource)

\* EventManager.emit(event_type, data, source=None, immediate)
emit(m, k, immediate, beh) ==
    IF immediate
    THEN _process_event([m EXCEPT !.clock = @ + 1], GameEvent(m, k, NoSource), beh)
    ELSE Enqueue(m, k, NoSource)

\* EventManager.clear_queue()
clear_queue(m) == [m EXCEPT !._event_queue = <<>>]

\* seq[-limit:] of a Python list: the slice starts `limit` entries before
\* the end, at the front when the list is shorter, and -0 is 0
FromEnd(seq, limit) ==
    LET start == IF limit = 0 THEN 0
                 ELSE IF limit > Len(seq) THEN 0 ELSE Len(seq) - limit
    IN  SubSeq(seq, start + 1, Len(seq))

\* EventManager.get_event_history(event_type, limit): the list it returns
get_event_history(m, k, limit) ==
    IF k = NoFilter
    THEN FromEnd(m._event_history, limit)
    ELSE FromEnd(SelectSeq(m._event_history, LAMBDA e : e.event_type = k), limit)

(* ------------------------------------------------------------------ *)
(* The state machine of the event manager                             *)
(* ------------------------------------------------------------------ *)

\* the operation returns: its effects become the new state
EvReturn(m, op, k, immediate, l) ==
    /\ _listeners' = m._listeners
    /\ _global_listeners' = m._global_listeners
    /\ _event_queue' = m._event_queue
    /\ _processing' = m._processing
    /\ _event_history' = m._event_history
    /\ next_ref' = m.next_ref
    /\ clock' = m.clock
    /\ handled' = m.handled
    /\ lastEv' = [op |-> op, event_type |-> k, immediate |-> immediate, listener |-> l]
    /\ query' = NoQuery
    /\ alive' = [x \in Listeners |-> alive[x] /\ x \notin m.dead]
    /\ UNCHANGED <<enabled, smvars, tmvars>>

\* the operation has created no more than n events since construction
Within(m, n) == m.clock <= n + 1

\* the listeners a log of handle_event calls names
Called(log) == {log[i].listener : i \in 1..Len(log)}

\* what the handlers do during one operation: at most two of them do
\* anything but return False
HandlerBehaviours ==
    {beh \in [Listeners -> Behaviours] :
        Cardinality({l \in Listeners : beh[l] # "pass"}) <= 2}

\* every handler returns False
ReturnFalse == [l \in Listeners |-> "pass"]

\* a handler that is never called does nothing
HandlersOf(m, beh) == \A l \in Listeners \ Called(m.handled) : beh[l] = "pass"

\* the subscriptions the game makes at start-up: one global listener of
\* priority 1, two listeners of priority 5 and the global one on one kind,
\* one listener of priority -3 on the other
StartUp ==
    subscribe(subscribe(subscribe(subscribe(subscribe_global(
        [_listeners |-> [k \in EventType |-> <<>>], _global_listeners |-> <<>>,
         _event_queue |-> <<>>, _processing |-> FALSE, _event_history |-> <<>>,
         next_ref |-> 1, clock |-> 1, handled |-> <<>>, consumed |-> FALSE,
         dead |-> {}, victim |-> 0],
        2), "player_moved", 1), "player_moved", 2), "player_moved", 3), "item_used", 4)

\* the event manager after start-up; no listener is disabled, or the one
\* that is on both lists is
InitEvents ==
    /\ StateManagerInit
    /\ TimeManagerInit
    /\ \E off \in {0, 2} : enabled = [l \in Listeners |-> l # off]
    /\ alive = [l \in Listeners |-> TRUE]
    /\ _listeners = StartUp._listeners
    /\ _global_listeners = StartUp._global_listeners
    /\ _event_queue = <<>>
    /\ _processing = FALSE
    /\ _event_history = <<>>
    /\ next_ref = StartUp.next_ref
    /\ clock = 1
    /\ handled = <<>>
    /\ lastEv = [op |-> "init", event_type |-> "none", immediate |-> FALSE, listener |-> 0]
    /\ query = NoQuery

Emit ==
    \E k \in EventType, immediate \in BOOLEAN, beh \in HandlerBehaviours :
        LET m == emit(EvSelf, k, immediate, beh)
        IN  /\ Within(EvSelf, MaxEvents - 1)
            /\ ~immediate => beh = ReturnFalse
            /\ HandlersOf(m, beh)
            /\ Within(m, MaxEvents)
            /\ EvReturn(m, "emit", k, immediate, 0)

ProcessEvents ==
    \E beh \in HandlerBehaviours :
        LET m == process_events(EvSelf, beh)
        IN  /\ _event_queue = <<>> => beh = ReturnFalse
            /\ HandlersOf(m, beh)
            /\ Within(m, MaxEvents)
            /\ EvReturn(m, "process_events", "none", FALSE, 0)

ClearQueue ==
    /\ _event_queue # <<>>
    /\ EvReturn(clear_queue(EvSelf), "clear_queue", "none", FALSE, 0)

NextEvents ==
    \/ Emit
    \/ ProcessEvents
    \/ ClearQueue

SpecEvents == InitEvents /\ [][NextEvents]_vars

(* ------------------------------------------------------------------ *)
(* The state machine of the subscriptions                             *)
(* ------------------------------------------------------------------ *)

\* the event kind whose subscriber list the model follows beside the global list
SubscribedTypes == {"player_moved"}

Subscribe ==
    \E k \in SubscribedTypes, l \in Listeners :
        /\ next_ref <= MaxRefs
        /\ EvReturn(subscribe(EvSelf, k, l), "subscribe", k, FALSE, l)

SubscribeGlobal ==
    \E l \in Listeners :
        /\ next_ref <= MaxRefs
        /\ EvReturn(subscribe_global(EvSelf, l), "subscribe_global", "none", FALSE, l)

Unsubscribe ==
    \E k \in SubscribedTypes, l \in Listeners :
        EvReturn(unsubscribe(EvSelf, k, l), "unsubscribe", k, FALSE, l)

UnsubscribeGlobal ==
    \E l \in Listeners :
        EvReturn(unsubscribe_global(EvSelf, l), "unsubscribe_global", "none", FALSE, l)

\* an immediate emit to handlers that all return False
EmitImmediate ==
    \E k \in SubscribedTypes :
        LET m == emit(EvSelf, k, TRUE, ReturnFalse)
        IN  /\ Within(EvSelf, MaxNotified - 1)
            /\ EvReturn(m, "emit", k, TRUE, 0)

NextSubs ==
    \/ Subscribe
    \/ SubscribeGlobal
    \/ Unsubscribe
    \/ UnsubscribeGlobal
    \/ EmitImmediate

SpecSubs == Init /\ [][NextSubs]_vars

(* ------------------------------------------------------------------ *)
(* SpecDuplicates: two listeners subscribe to one kind, again and     *)
(* again; they and a listener that never subscribed unsubscribe; an   *)
(* event of the kind is emitted                                       *)
(* ------------------------------------------------------------------ *)

\* the listeners that subscribe (priorities 5 and 1)
Subscribers == {1, 2}

\* the listeners that unsubscribe: the two, and one that never subscribed
Unsubscribers == {1, 2, 3}

SubscribeAgain ==
    \E l \in Subscribers :
        /\ next_ref <= MaxRefs
        /\ EvReturn(subscribe(EvSelf, "player_moved", l), "subscribe", "player_moved",
                    FALSE, l)

UnsubscribeOne ==
    \E l \in Unsubscribers :
        EvReturn(unsubscribe(EvSelf, "player_moved", l), "unsubscribe", "player_moved",
                 FALSE, l)

NextDuplicates ==
    \/ SubscribeAgain
    \/ UnsubscribeOne
    \/ EmitImmediate

SpecDuplicates == Init /\ [][NextDuplicates]_vars

(* ------------------------------------------------------------------ *)
(* The state machine of a long run: one event at a time, emitted      *)
(* immediately or queued and drained, to handlers that return False   *)
(* ------------------------------------------------------------------ *)

InitHistory ==
    /\ InitEvents
    /\ \A l \in Listeners : enabled[l]

EmitInTurn ==
    \E k \in SubscribedTypes, immediate \in BOOLEAN :
        /\ _event_queue = <<>>
        /\ Within(EvSelf, MaxDispatched - 1)
        /\ EvReturn(emit(EvSelf, k, immediate, ReturnFalse), "emit", k, immediate, 0)

DrainInTurn ==
    /\ _event_queue # <<>>
    /\ EvReturn(process_events(EvSelf, ReturnFalse), "process_events", "none", FALSE, 0)

NextHistory ==
    \/ EmitInTurn
    \/ DrainInTurn

SpecHistory == InitHistory /\ [][NextHistory]_vars

(* ------------------------------------------------------------------ *)
(* SpecDrain: process_events step by step. One listener is subscribed *)
(* to each kind and the game emits one queued event at a time; the    *)
(* handler of listener 1 queues one event of the kind it was called   *)
(* with every time it is called, the other handler returns False.     *)
(* ------------------------------------------------------------------ *)

\* what the handlers do: listener 1 emits, with immediate=False, an event
\* of the kind of the event it handles
Reemitting == [l \in Listeners |-> IF l = 1 THEN "reemit" ELSE "pass"]

\* the subscriptions: listener 1 to one kind, listener 4 to the other
Reemitter ==
    subscribe(subscribe(
        [_listeners |-> [k \in EventType |-> <<>>], _global_listeners |-> <<>>,
         _event_queue |-> <<>>, _processing |-> FALSE, _event_history |-> <<>>,
         next_ref |-> 1, clock |-> 1, handled |-> <<>>, consumed |-> FALSE,
         dead |-> {}, victim |-> 0],
        "player_moved", 1), "item_used", 4)

InitDrain ==
    /\ StateManagerInit
    /\ TimeManagerInit
    /\ enabled = [l \in Listeners |-> TRUE]
    /\ alive = [l \in Listeners |-> TRUE]
    /\ _listeners = Reemitter._listeners
    /\ _global_listeners = <<>>
    /\ _event_queue = <<>>
    /\ _processing = FALSE
    /\ _event_history = <<>>
    /\ next_ref = Reemitter.next_ref
    /\ clock = 1
    /\ handled = <<>>
    /\ lastEv = [op |-> "init", event_type |-> "none", immediate |-> FALSE, listener |-> 0]
    /\ query = NoQuery

\* the GameEvent objects that can exist at a time: those of the history,
\* the one queued, and the one being created
Identities == _max_history + 2

\* the identity of the next GameEvent object: an object that is neither
\* queued nor in the history is gone and its identity is used again
Reused(m) == [m EXCEPT !.clock = IF @ > Identities THEN @ - Identities ELSE @]

\* emit(event_type) by the game, when nothing is queued
EmitQueued ==
    \E k \in EventType :
        /\ ~_processing
        /\ _event_queue = <<>>
        /\ Within(EvSelf, MaxNotified)
        /\ EvReturn(Reused(emit(EvSelf, k, FALSE, Reemitting)), "emit", k, FALSE, 0)

\* process_events() is called: the guard against re-entry is passed and
\* self._processing = True
ProcessEventsEnter ==
    /\ ~_processing
    /\ EvReturn([EvSelf EXCEPT !._processing = TRUE], "process_events", "none", FALSE, 0)

\* one turn of the while loop: event = self._event_queue.pop(0);
\* self._process_event(event)
DispatchNext ==
    /\ _processing
    /\ _event_queue # <<>>
    /\ EvReturn(Reused(_process_event([EvSelf EXCEPT !._event_queue = Tail(@)],
                                      Head(_event_queue), Reemitting)),
                "process_events", "none", FALSE, 0)

\* the queue is empty: the loop ends, self._processing = False, the call returns
ProcessEventsReturn ==
    /\ _processing
    /\ _event_queue = <<>>
    /\ EvReturn([EvSelf EXCEPT !._processing = FALSE], "process_events", "none", FALSE, 0)

NextDrain ==
    \/ EmitQueued
    \/ ProcessEventsEnter
    \/ DispatchNext
    \/ ProcessEventsReturn

\* a call of process_events that has begun goes on: the interpreter runs
\* the loop and the return
SpecDrain ==
    /\ InitDrain
    /\ [][NextDrain]_vars
    /\ WF_vars(DispatchNext)
    /\ WF_vars(ProcessEventsReturn)

(* ------------------------------------------------------------------ *)
(* The state machine of the history queries                           *)
(* ------------------------------------------------------------------ *)

\* an event of either kind is dispatched to handlers that return False
Dispatch ==
    \E k \in EventType :
        /\ Within(EvSelf, MaxEvents - 1)
        /\ EvReturn(emit(EvSelf, k, TRUE, ReturnFalse), "emit", k, TRUE, 0)

GetEventHistory ==
    \E k \in EventType \cup {NoFilter}, limit \in 0..MaxLimit :
        /\ query' = [event_type |-> k, limit |-> limit,
                     result |-> get_event_history(EvSelf, k, limit)]
        /\ lastEv' = [op |-> "get_event_history", event_type |-> k,
                      immediate |-> FALSE, listener |-> 0]
        /\ handled' = <<>>
        /\ UNCHANGED <<_listeners, _global_listeners, _event_queue, _processing,
                       _event_history, enabled, alive, next_ref, clock, smvars, tmvars>>

NextQuery ==
    \/ Dispatch
    \/ GetEventHistory

SpecQuery == InitHistory /\ [][NextQuery]_vars

(* ------------------------------------------------------------------ *)
(* The state machine of the owners: listeners go away between         *)
(* operations or while an event is being dispatched                   *)
(* ------------------------------------------------------------------ *)

\* what a handler does here: return False, return True, or drop the last
\* strong reference to another listener and return False; at most two
\* handlers do anything but return False
OwnerBehaviours ==
    {beh \in [Listeners -> {"pass", "consume", "destroy"}] :
        Cardinality({l \in Listeners : beh[l] # "pass"}) <= 2}

\* the listener whose owner the handlers may destroy: an existing one, or
\* none when no handler destroys
Victims(beh) ==
    IF \E l \in Listeners : beh[l] = "destroy" THEN {l \in Listeners : alive[l]} ELSE {0}

DestroyOwner ==
    \E l \in Listeners :
        /\ alive[l]
        /\ EvReturn(destroy(EvSelf, l), "destroy", "none", FALSE, l)

EmitToOwners ==
    \E k \in EventType, immediate \in BOOLEAN, beh \in OwnerBehaviours :
        \E victim \in Victims(beh) :
            LET m == emit([EvSelf EXCEPT !.victim = victim], k, immediate, beh)
            IN  /\ Within(EvSelf, MaxNotified)
                /\ ~immediate => beh = ReturnFalse
                /\ HandlersOf(m, beh)
                /\ EvReturn(m, "emit", k, immediate, victim)

DrainToOwners ==
    \E beh \in OwnerBehaviours :
        \E victim \in Victims(beh) :
            LET m == process_events([EvSelf EXCEPT !.victim = victim], beh)
            IN  /\ _event_queue # <<>>
                /\ HandlersOf(m, beh)
                /\ EvReturn(m, "process_events", "none", FALSE, victim)

NextOwners ==
    \/ DestroyOwner
    \/ EmitToOwners
    \/ DrainToOwners

SpecOwners == InitHistory /\ [][NextOwners]_vars


(* ------------------------------------------------------------------ *)
(* TimeManager: the operations as functions of the manager            *)
(* ------------------------------------------------------------------ *)

\* the fields of the time manager and the queue of the event manager its
\* events go to, before an operation; published, fired, ret (what the
\* operation returns, where it returns a bool) and raised (an exception
\* leaves the operation) describe the operation in progress
TmSelf ==
    [time_scale |-> time_scale, paused |-> paused, current_time |-> current_time,
     last_time_of_day |-> last_time_of_day, last_season |-> last_season,
     current_weather |-> current_weather, temporal_events |-> temporal_events,
     completed_events |-> completed_events, accumulated_time |-> accumulated_time,
     next_event |-> next_event, _event_queue |-> _event_queue, clock |-> clock,
     published |-> <<>>, fired |-> <<>>, ret |-> FALSE, raised |-> FALSE,
     elapsed |-> elapsed, advanced |-> advanced, batches |-> batches]

\* emit_event(event_type, data): get_event_manager().emit(...) on the one
\* EventManager there is, with immediate=False
emit_event(m, e) ==
    [Enqueue(m, e.event_type, NoSource) EXCEPT !.published = Append(@, e)]

\* carries for a month of 31 days
HandleHourOverflow_long_month(t) ==
    IF t.hour >= 24
    THEN LET t1 == [t EXCEPT !.hour = 0, !.day = @ + 1]
         IN  IF t1.day > 31
             THEN LET t2 == [t1 EXCEPT !.day = 1, !.month = @ + 1]
                  IN  IF t2.month > 12
                      THEN [t2 EXCEPT !.month = 1, !.year = @ + 1]
                      ELSE t2
             ELSE t1
    ELSE t

\* the carries of _advance_time, for an hour that is due
HandleHourOverflow(t) ==
    IF t.hour >= 24
    THEN LET t1 == [t EXCEPT !.hour = 0, !.day = @ + 1]
         IN  IF t1.day > 30
             THEN LET t2 == [t1 EXCEPT !.day = 1, !.month = @ + 1]
                  IN  IF t2.month > 12
                      THEN [t2 EXCEPT !.month = 1, !.year = @ + 1]
                      ELSE t2
             ELSE t1
    ELSE t

RECURSIVE HandleOverflow(_)
\* a carry that looks for the minute overflow once
HandleOverflow_once(t) ==
    IF t.minute >= 60
    THEN HandleHourOverflow([t EXCEPT !.minute = @ - 60, !.hour = @ + 1])
    ELSE t

\* while self.current_time.minute >= 60: ...
HandleOverflow(t) ==
    IF t.minute >= 60
    THEN HandleOverflow(HandleHourOverflow([t EXCEPT !.minute = @ - 60, !.hour = @ + 1]))
    ELSE t

\* TimeManager._on_time_of_day_changed: without a notification for midnight
_on_time_of_day_changed_no_midnight(m, old_time, new_time) ==
    CASE new_time = "dawn" ->
            emit_event(m, Published("day_night_changed", "sunrise", "none", "none", "none", "none"))
      [] new_time = "dusk" ->
            emit_event(m, Published("day_night_changed", "sunset", "none", "none", "none", "none"))
      [] OTHER -> m

\* TimeManager._on_time_of_day_changed
_on_time_of_day_changed(m, old_time, new_time) ==
    CASE new_time = "dawn" ->
            emit_event(m, Published("day_night_changed", "sunrise", "none", "none", "none", "none"))
      [] new_time = "dusk" ->
            emit_event(m, Published("day_night_changed", "sunset", "none", "none", "none", "none"))
      [] new_time = "midnight" ->
            emit_event(m, Published("day_night_changed", "midnight", "none", "none", "none", "none"))
      [] OTHER -> m

\* TimeManager._on_season_changed
_on_season_changed(m, old_season, new_season) ==
    emit_event(m, Published("weather_changed", "season_change", old_season, new_season,
                            "none", "none"))

\* a choice among all the types of the season
possible_weather_keeps_old(m) == weather_patterns[get_season(m.current_time)]

\* the types _change_weather chooses from: those of the season, less the
\* old one when the season has more than one
possible_weather(m) ==
    LET old_weather == m.current_weather.weather_type
        all == weather_patterns[get_season(m.current_time)]
    IN  IF Len(all) > 1 THEN SelectSeq(all, LAMBDA w : w # old_weather) ELSE all

\* TimeManager._change_weather, random.choice giving new_weather and
\* random.randint(30, 240) giving duration
_change_weather(m, new_weather, duration) ==
    LET old_weather == m.current_weather.weather_type
    IN  emit_event([m EXCEPT !.current_weather =
                        [weather_type |-> new_weather, duration_remaining |-> duration]],
                   Published("weather_changed", "weather", old_weather, new_weather,
                             "none", "none"))

\* a change from ten minutes on instead of from eleven on
ChangeChance_from_ten(minutes_passed) == 1 * minutes_passed >= 10

\* change_chance > 0.01 for change_chance = 0.001 * minutes_passed, in
\* thousandths: true from 11 minutes on (0.001 * 10 > 0.01 is false in
\* double arithmetic as it is in exact arithmetic)
ChangeChance(minutes_passed) == 1 * minutes_passed > 10

\* the weather after the duration is reduced by the minutes passed
Reduced(weather, minutes_passed) ==
    IF weather.duration_remaining > 0
    THEN [weather EXCEPT !.duration_remaining = @ - minutes_passed]
    ELSE weather

\* TimeManager._update_weather
_update_weather(m, minutes_passed, new_weather, duration) ==
    LET m1 == [m EXCEPT !.current_weather = Reduced(@, minutes_passed)]
    IN  IF m1.current_weather.duration_remaining <= 0 \/ ChangeChance(minutes_passed)
        THEN _change_weather(m1, new_weather, duration)
        ELSE m1

\* what a callback may do to the time manager when it is called:
\* nothing, cancel the event it belongs to, cancel the event scheduled
\* right before or right after its own (a handle it kept), or schedule a
\* new event for the current time
CallbackDoes == {"nothing", "cancel_self", "cancel_previous", "cancel_next", "schedule"}

\* the identities of the events of a list of TemporalEvent objects
Ids(events) == {events[i].id : i \in 1..Len(events)}

\* TemporalEvent(event_time, callback, name, repeating, repeat_interval);
\* the callback is what it does to the manager (does) and whether it then
\* raises (raises)
TemporalEvent(m, event_time, raises, does, repeating, repeat_interval) ==
    [id |-> m.next_event, raises |-> raises, does |-> does, repeating |-> repeating,
     repeat_interval |-> repeat_interval, next_execution |-> total_minutes(event_time)]

\* an event that is not due in the minute of its target
should_execute_late(event, t) == total_minutes(t) > event.next_execution

\* TemporalEvent.should_execute
should_execute(event, t) == total_minutes(t) >= event.next_execution

\* TemporalEvent.execute: the event afterwards; an exception of the
\* callback skips the rest of the try block
execute(event, t) ==
    IF event.raises THEN event
    ELSE IF event.repeating /\ event.repeat_interval > 0
    THEN [event EXCEPT !.next_execution = total_minutes(t) + event.repeat_interval]
    ELSE [event EXCEPT !.next_execution = inf]

\* TimeManager.schedule_event
schedule_event(m, event_time, raises, does, repeating, repeat_interval) ==
    [m EXCEPT !.temporal_events =
                  Append(@, TemporalEvent(m, event_time, raises, does, repeating,
                                          repeat_interval)),
              !.next_event = @ + 1]

\* a cancel_event that reports success whatever it finds
cancel_event_always_true(m, id) ==
    [m EXCEPT !.temporal_events = SelectSeq(@, LAMBDA event : event.id # id),
              !.ret = TRUE]

\* TimeManager.cancel_event(event), the event given by its identity
cancel_event(m, id) ==
    IF id \in Ids(m.temporal_events)
    THEN [m EXCEPT !.temporal_events = SelectSeq(@, LAMBDA event : event.id # id),
                   !.ret = TRUE]
    ELSE [m EXCEPT !.ret = FALSE]

\* self.callback() of an event: what the call does to the manager, before
\* it returns or raises; what cancel_event returns to it goes nowhere
Callback(m, event) ==
    CASE event.does = "cancel_self" ->
            [cancel_event(m, event.id) EXCEPT !.ret = m.ret]
      [] event.does = "cancel_previous" ->
            [cancel_event(m, event.id - 1) EXCEPT !.ret = m.ret]
      [] event.does = "cancel_next" ->
            [cancel_event(m, event.id + 1) EXCEPT !.ret = m.ret]
      [] event.does = "schedule" ->
            schedule_event(m, m.current_time, FALSE, "nothing", FALSE, 0)
      [] OTHER -> m

\* one record of the log of callbacks called: the event, whether the
\* callback raised, how many events the operation had published, and the
\* events the callback took off the pending list
Fired(m, event, called) ==
    [id |-> event.id, raised |-> event.raises, at |-> Len(m.published),
     cancelled |-> Ids(m.temporal_events) \ Ids(called.temporal_events)]

\* the event object after execute changed it, in the list if it is there
Changed(events, after) ==
    [i \in 1..Len(events) |-> IF events[i].id = after.id THEN after ELSE events[i]]

RECURSIVE RemoveFrom(_, _)
\* for event in events_to_remove: self.temporal_events.remove(event);
\* list.remove raises ValueError for an event that is not in the list
RemoveFrom(m, events_to_remove) ==
    IF events_to_remove = <<>> THEN m
    ELSE IF Head(events_to_remove) \in Ids(m.temporal_events)
    THEN RemoveFrom([m EXCEPT !.temporal_events =
                                  SelectSeq(@, LAMBDA event : event.id # Head(events_to_remove))],
                    Tail(events_to_remove))
    ELSE [m EXCEPT !.raised = TRUE]

RECURSIVE ProcessFrom(_, _, _)
\* a loop that the exception of a callback leaves
ProcessFrom_raise_aborts(m, i, events_to_remove) ==
    IF i > Len(m.temporal_events)
    THEN RemoveFrom(m, events_to_remove)
    ELSE LET event == m.temporal_events[i]
         IN  IF should_execute(event, m.current_time)
             THEN LET after == execute(event, m.current_time)
                      called == Callback(m, event)
                      m1 == [called EXCEPT !.temporal_events = Changed(@, after),
                                           !.fired = Append(@, Fired(m, event, called))]
                  IN  IF event.raises THEN [m1 EXCEPT !.raised = TRUE]
                      ELSE IF ~after.repeating \/ after.next_execution = inf
                      THEN ProcessFrom([m1 EXCEPT !.completed_events = Append(@, after.id)],
                                       i + 1, Append(events_to_remove, after.id))
                      ELSE ProcessFrom(m1, i + 1, events_to_remove)
             ELSE ProcessFrom(m, i + 1, events_to_remove)

\* the loop of _process_temporal_events from entry i on, with the
\* identities of events_to_remove so far: the for statement reads the
\* list as it is when it comes to position i
ProcessFrom(m, i, events_to_remove) ==
    IF i > Len(m.temporal_events)
    THEN RemoveFrom(m, events_to_remove)
    ELSE LET event == m.temporal_events[i]
         IN  IF should_execute(event, m.current_time)
             THEN LET after == execute(event, m.current_time)
                      called == Callback(m, event)
                      m1 == [called EXCEPT !.temporal_events = Changed(@, after),
                                           !.fired = Append(@, Fired(m, event, called))]
                  IN  IF ~after.repeating \/ after.next_execution = inf
                      THEN ProcessFrom([m1 EXCEPT !.completed_events = Append(@, after.id)],
                                       i + 1, Append(events_to_remove, after.id))
                      ELSE ProcessFrom(m1, i + 1, events_to_remove)
             ELSE ProcessFrom(m, i + 1, events_to_remove)

\* TimeManager._process_temporal_events
_process_temporal_events(m) == ProcessFrom(m, 1, <<>>)

\* a batch that publishes the time-advanced event before it updates the
\* weather and calls the callbacks
_advance_time_notifies_first(m, minutes, new_weather, duration) ==
    LET old_time == m.current_time
        m1 == [m EXCEPT !.current_time =
                            HandleOverflow([@ EXCEPT !.minute = @ + minutes]),
                        !.advanced = @ + minutes,
                        !.batches = @ + 1]
        current_time_of_day == get_time_of_day(m1.current_time)
        m2 == IF current_time_of_day # m1.last_time_of_day
              THEN [_on_time_of_day_changed(m1, m1.last_time_of_day, current_time_of_day)
                        EXCEPT !.last_time_of_day = current_time_of_day]
              ELSE m1
        current_season == get_season(m2.current_time)
        m3 == IF current_season # m2.last_season
              THEN [_on_season_changed(m2, m2.last_season, current_season)
                        EXCEPT !.last_season = current_season]
              ELSE m2
        m4 == emit_event(m3, Published("day_night_changed", "time", old_time,
                                       m3.current_time, current_time_of_day,
                                       current_season))
        m5 == _update_weather(m4, minutes, new_weather, duration)
    IN  _process_temporal_events(m5)

\* TimeManager._advance_time(minutes), new_weather and duration being what
\* the random generator gives if the weather changes
_advance_time(m, minutes, new_weather, duration) ==
    LET old_time == m.current_time
        m1 == [m EXCEPT !.current_time =
                            HandleOverflow([@ EXCEPT !.minute = @ + minutes]),
                        !.advanced = @ + minutes,
                        !.batches = @ + 1]
        current_time_of_day == get_time_of_day(m1.current_time)
        m2 == IF current_time_of_day # m1.last_time_of_day
              THEN [_on_time_of_day_changed(m1, m1.last_time_of_day, current_time_of_day)
                        EXCEPT !.last_time_of_day = current_time_of_day]
              ELSE m1
        current_season == get_season(m2.current_time)
        m3 == IF current_season # m2.last_season
              THEN [_on_season_changed(m2, m2.last_season, current_season)
                        EXCEPT !.last_season = current_season]
              ELSE m2
        m4 == _update_weather(m3, minutes, new_weather, duration)
        m5 == _process_temporal_events(m4)
    IN  IF m5.raised THEN m5
        ELSE emit_event(m5, Published("day_night_changed", "time", old_time,
                                      m5.current_time, current_time_of_day,
                                      current_season))

\* an update that drops the fraction left over when it advances the clock
time_update_drops_fraction(m, delta_time, new_weather, duration) ==
    IF m.paused THEN m
    ELSE LET game_minutes == delta_time * m.time_scale
             m1 == [m EXCEPT !.accumulated_time = @ + game_minutes,
                             !.elapsed = @ + game_minutes]
             minutes_to_advance == m1.accumulated_time \div Grain
         IN  IF minutes_to_advance > 0
             THEN _advance_time([m1 EXCEPT !.accumulated_time = 0],
                                minutes_to_advance, new_weather, duration)
             ELSE m1

\* an update that lets the accumulator run while the clock is paused
time_update_accumulates_paused(m, delta_time, new_weather, duration) ==
    IF m.paused THEN [m EXCEPT !.accumulated_time = @ + delta_time * m.time_scale]
    ELSE LET game_minutes == delta_time * m.time_scale
             m1 == [m EXCEPT !.accumulated_time = @ + game_minutes,
                             !.elapsed = @ + game_minutes]
             minutes_to_advance == m1.accumulated_time \div Grain
         IN  IF minutes_to_advance > 0
             THEN _advance_time([m1 EXCEPT !.accumulated_time = @ - minutes_to_advance * Grain],
                                minutes_to_advance, new_weather, duration)
             ELSE m1

\* TimeManager.update(delta_time), delta_time in grains of a second
time_update(m, delta_time, new_weather, duration) ==
    IF m.paused THEN m
    ELSE LET game_minutes == delta_time * m.time_scale
             m1 == [m EXCEPT !.accumulated_time = @ + game_minutes,
                             !.elapsed = @ + game_minutes]
             minutes_to_advance == m1.accumulated_time \div Grain
         IN  IF minutes_to_advance > 0
             THEN _advance_time([m1 EXCEPT !.accumulated_time = @ - minutes_to_advance * Grain],
                                minutes_to_advance, new_weather, duration)
             ELSE m1

\* TimeManager.pause
time_pause(m) == [m EXCEPT !.paused = TRUE]

\* TimeManager.resume; self.last_real_time is read by no method
time_resume(m) == [m EXCEPT !.paused = FALSE]

\* TimeManager.set_time
set_time(m, game_time) ==
    emit_event([m EXCEPT !.current_time = game_time],
               Published("day_night_changed", "time", m.current_time, game_time,
                         get_time_of_day(game_time), get_season(game_time)))

\* TimeManager.force_weather_change
force_weather_change(m, weather_type, duration) ==
    LET old_weather == m.current_weather.weather_type
    IN  emit_event([m EXCEPT !.current_weather =
                        [weather_type |-> weather_type, duration_remaining |-> duration]],
                   Published("weather_changed", "forced", old_weather, weather_type,
                             "none", "none"))

\* the operation returns: its effects become the new state
TmReturn(m, op, arg) ==
    /\ time_manager' =
          [time_scale |-> m.time_scale, paused |-> m.paused, current_time |-> m.current_time,
           last_time_of_day |-> m.last_time_of_day, last_season |-> m.last_season,
           current_weather |-> m.current_weather, temporal_events |-> m.temporal_events,
           completed_events |-> m.completed_events, accumulated_time |-> m.accumulated_time,
           next_event |-> m.next_event, published |-> m.published, fired |-> m.fired,
           lastTm |-> [op |-> op, arg |-> arg, before |-> lastTm.op, ret |-> m.ret,
                       raised |-> m.raised],
           elapsed |-> m.elapsed, advanced |-> m.advanced, batches |-> m.batches]
    /\ _event_queue' = m._event_queue
    /\ clock' = m.clock
    /\ UNCHANGED <<_listeners, _global_listeners, _processing, _event_history, enabled,
                   alive, next_ref, handled, lastEv, query, smvars>>

\* what the random generator may give when the weather changes in a batch
\* of the given minutes: a type to choose from and one of the durations;
\* when it does not change nothing is drawn
Drawn(m, minutes, new_weather, duration, durations) ==
    LET t  == HandleOverflow([m.current_time EXCEPT !.minute = @ + minutes])
        m1 == [m EXCEPT !.current_time = t,
                        !.current_weather = Reduced(@, minutes)]
    IN  IF m1.current_weather.duration_remaining <= 0 \/ ChangeChance(minutes)
        THEN /\ \E i \in 1..Len(possible_weather(m1)) : possible_weather(m1)[i] = new_weather
             /\ duration \in durations
        ELSE new_weather = "clear" /\ duration = 30


\* the event manager of a time manager m that nothing has subscribed to
EventManagerOf(m) ==
    /\ _listeners = [k \in EventType |-> <<>>]
    /\ _global_listeners = <<>>
    /\ _event_queue = m._event_queue
    /\ _processing = FALSE
    /\ _event_history = <<>>
    /\ enabled = [l \in Listeners |-> TRUE]
    /\ alive = [l \in Listeners |-> TRUE]
    /\ next_ref = 1
    /\ clock = m.clock
    /\ handled = <<>>
    /\ lastEv = [op |-> "init", event_type |-> "none", immediate |-> FALSE, listener |-> 0]
    /\ query = NoQuery

(* ------------------------------------------------------------------ *)
(* SpecCalendar: the clock is set to a time at or next to the ends of *)
(* the hour, the day, the month and the year, and advanced in batches *)
(* ------------------------------------------------------------------ *)

\* the times the clock is set to
CalendarTimes ==
    {GameTime(1, month, day, hour, minute) :
        month \in {1, 2, 12}, day \in {1, 30}, hour \in {0, 23}, minute \in {0, 59}}

\* the minutes of a batch: one, two, an hour less and more a minute, two hours and a minute
BatchSizes == {1, 2, 59, 61, 121}

\* the durations random.randint(30, 240) gives in the model: its two ends
Durations == {30, 240}

InitCalendar ==
    \E t \in CalendarTimes :
        LET m == set_time(TimeManager(60), t)
        IN  /\ StateManagerInit
            /\ EventManagerOf(m)
            /\ TimeManagerIs(m, "set_time")

AdvanceTime ==
    \E minutes \in BatchSizes, new_weather \in WeatherType, duration \in Durations :
        /\ batches < MaxBatches
        /\ Drawn(TmSelf, minutes, new_weather, duration, {240})
        /\ TmReturn(_advance_time(TmSelf, minutes, new_weather, duration),
                    "_advance_time", minutes)

NextCalendar == AdvanceTime

SpecCalendar == InitCalendar /\ [][NextCalendar]_vars


(* ------------------------------------------------------------------ *)
(* SpecWeather: the game forces a weather for a few minutes and the   *)
(* clock advances in batches of up to, exactly and more than ten      *)
(* minutes                                                            *)
(* ------------------------------------------------------------------ *)

\* the times the clock is set to: noon of a day of winter and of summer
WeatherTimes == {GameTime(1, 1, 15, 12, 0), GameTime(1, 7, 15, 12, 0)}

\* the minutes of a batch
WeatherBatches == {1, 9, 10, 11}

\* the durations the game forces a weather for
ForcedDurations == {0, 10, 11, 21}

InitWeather ==
    \E t \in WeatherTimes :
        LET m == set_time(TimeManager(60), t)
        IN  /\ StateManagerInit
            /\ EventManagerOf(m)
            /\ TimeManagerIs(m, "set_time")

AdvanceWeather ==
    \E minutes \in WeatherBatches, new_weather \in WeatherType, duration \in Durations :
        /\ batches < MaxBatches
        /\ Drawn(TmSelf, minutes, new_weather, duration, Durations)
        /\ TmReturn(_advance_time(TmSelf, minutes, new_weather, duration),
                    "_advance_time", minutes)

\* force_weather_change(weather_type, duration), at most once between two
\* batches
ForceWeather ==
    \E weather_type \in {"rain"}, duration \in ForcedDurations :
        /\ batches < MaxBatches
        /\ lastTm.op # "force_weather_change"
        /\ TmReturn(force_weather_change(TmSelf, weather_type, duration),
                    "force_weather_change", duration)

NextWeather ==
    \/ AdvanceWeather
    \/ ForceWeather

SpecWeather == InitWeather /\ [][NextWeather]_vars

(* ------------------------------------------------------------------ *)
(* SpecYear: the clock is set to a time shortly before the end of a   *)
(* day, a month or the year, a repeating callback is scheduled for    *)
(* that time, and the clock advances by a minute or two at a time     *)
(* ------------------------------------------------------------------ *)

\* the times the clock is set to
YearTimes ==
    {GameTime(1, month, 30, 23, minute) : month \in {6, 12}, minute \in {56, 57}}
        \cup {GameTime(1, 12, 29, 23, 57), GameTime(2, 12, 30, 23, 57)}

\* the repeat_interval of the callback, in minutes
Intervals == {2, 3, 5}

InitYear ==
    \E t \in YearTimes, repeat_interval \in Intervals :
        LET m == schedule_event(set_time(TimeManager(60), t), t, FALSE, "nothing", TRUE,
                                repeat_interval)
        IN  /\ StateManagerInit
            /\ EventManagerOf(m)
            /\ TimeManagerIs(m, "schedule_event")

AdvanceMinutes ==
    \E minutes \in {1, 2}, new_weather \in WeatherType, duration \in Durations :
        /\ batches < MaxBatches
        /\ Drawn(TmSelf, minutes, new_weather, duration, {240})
        /\ TmReturn(_advance_time(TmSelf, minutes, new_weather, duration),
                    "_advance_time", minutes)

NextYear == AdvanceMinutes

SpecYear == InitYear /\ [][NextYear]_vars

(* ------------------------------------------------------------------ *)
(* SpecClock: frames of any length, at a fixed scale, with the clock  *)
(* paused and resumed in between; one callback is pending             *)
(* ------------------------------------------------------------------ *)

\* the values of time_scale the manager is constructed with: one and
\* three minutes of game time per real second
Scales == {1, 3}

\* what the random generator gives in update(delta_time): see Drawn
DrawnInUpdate(m, delta_time, new_weather, duration, durations) ==
    LET minutes == (m.accumulated_time + delta_time * m.time_scale) \div Grain
    IN  IF m.paused \/ minutes = 0
        THEN new_weather = "clear" /\ duration = 30
        ELSE Drawn(m, minutes, new_weather, duration, durations)

InitClock ==
    \E scale \in Scales :
        LET m == schedule_event(TimeManager(scale), GameTime(1, 1, 1, 6, 2), FALSE,
                                "nothing", FALSE, 0)
        IN  /\ StateManagerInit
            /\ EventManagerOf(m)
            /\ TimeManagerIs(m, "schedule_event")

TimeUpdate ==
    \E delta_time \in 0..MaxDt, new_weather \in WeatherType, duration \in Durations :
        /\ elapsed + delta_time * time_scale <= MaxMinutes * Grain
        /\ DrawnInUpdate(TmSelf, delta_time, new_weather, duration, {30})
        /\ TmReturn(time_update(TmSelf, delta_time, new_weather, duration),
                    "update", delta_time)

TimePause == TmReturn(time_pause(TmSelf), "pause", 0)

TimeResume == TmReturn(time_resume(TmSelf), "resume", 0)

NextClock ==
    \/ TimeUpdate
    \/ TimePause
    \/ TimeResume

SpecClock == InitClock /\ [][NextClock]_vars


(* ------------------------------------------------------------------ *)
(* SpecSeasons: the clock is set to the last minute of a time of day  *)
(* or of a season and advanced; the weather is forced in between      *)
(* ------------------------------------------------------------------ *)

\* the last minute of each of the 8 times of day and of each of the 4
\* seasons, and the minute before the last one before dawn and before
\* winter (the time of day and the season the manager starts with)
SeasonTimes ==
    {GameTime(1, 1, 1, hour, 59) : hour \in {1, 4, 6, 9, 13, 16, 18, 21}}
        \cup {GameTime(1, month, 30, 23, 59) : month \in {2, 5, 8, 11}}
        \cup {GameTime(1, 1, 1, 4, 58), GameTime(1, 11, 30, 23, 58)}

\* the minutes of a batch: one, and two hours and a minute
SeasonBatches == {1, 121}

\* the weather the game forces: one of the types of the winter, and the
\* one that is in no season's pattern
ForcedWeather == {"snow", "crystal_storm"}

InitSeasons ==
    \E t \in SeasonTimes :
        LET m == set_time(TimeManager(60), t)
        IN  /\ StateManagerInit
            /\ EventManagerOf(m)
            /\ TimeManagerIs(m, "set_time")

AdvanceSeason ==
    \E minutes \in SeasonBatches, new_weather \in WeatherType, duration \in Durations :
        /\ batches < MaxSeasonBatches
        /\ Drawn(TmSelf, minutes, new_weather, duration, {240})
        /\ TmReturn(_advance_time(TmSelf, minutes, new_weather, duration),
                    "_advance_time", minutes)

\* force_weather_change(weather_type) with the default duration, at most
\* once between two batches
ForceWeatherChange ==
    \E weather_type \in ForcedWeather :
        /\ batches < MaxSeasonBatches
        /\ lastTm.op # "force_weather_change"
        /\ TmReturn(force_weather_change(TmSelf, weather_type, 60),
                    "force_weather_change", 60)

NextSeasons ==
    \/ AdvanceSeason
    \/ ForceWeatherChange

SpecSeasons == InitSeasons /\ [][NextSeasons]_vars


(* ------------------------------------------------------------------ *)
(* SpecSchedule: one or two callbacks are scheduled at start-up, for  *)
(* a time in the past or in the next minutes, and the frames follow   *)
(* ------------------------------------------------------------------ *)

\* the times callbacks are scheduled for: the minute before the start,
\* and one and three minutes after it
EventTimes == {GameTime(1, 1, 1, 5, 59), GameTime(1, 1, 1, 6, 1), GameTime(1, 1, 1, 6, 3)}

\* the callbacks scheduled: whether the callback raises, repeating and
\* repeat_interval (the default 0, or 2 minutes)
EventKinds ==
    {k \in [raises : BOOLEAN, repeating : BOOLEAN, repeat_interval : {0, 2}] :
        /\ k.repeat_interval > 0 => k.repeating
        /\ (k.repeating /\ k.repeat_interval = 0) => ~k.raises}

\* schedule_event(event_time, callback, repeating=..., repeat_interval=...)
Scheduled(m, event_time, kind) ==
    schedule_event(m, event_time, kind.raises, "nothing", kind.repeating,
                   kind.repeat_interval)

InitSchedule ==
    \E t1, t2 \in EventTimes, k1, k2 \in EventKinds, two \in BOOLEAN :
        LET m1 == Scheduled(TimeManager(1), t1, k1)
            m  == IF two THEN Scheduled(m1, t2, k2) ELSE m1
        IN  /\ ~two => (t2 = t1 /\ k2 = k1)
            /\ StateManagerInit
            /\ EventManagerOf(m)
            /\ TimeManagerIs(m, "schedule_event")

\* update(delta_time) for a frame of a second or of the longest length
Frame ==
    \E delta_time \in {Grain, MaxDt}, new_weather \in WeatherType, duration \in Durations :
        /\ elapsed + delta_time * time_scale <= MaxMinutes * Grain
        /\ DrawnInUpdate(TmSelf, delta_time, new_weather, duration, {240})
        /\ TmReturn(time_update(TmSelf, delta_time, new_weather, duration),
                    "update", delta_time)

NextSchedule == Frame

SpecSchedule == InitSchedule /\ [][NextSchedule]_vars

(* ------------------------------------------------------------------ *)
(* SpecNotify: the clock is set as in SpecSeasons and one or two      *)
(* callbacks are scheduled for a time in the past, so that a batch    *)
(* that changes the time of day, the season or the weather also has   *)
(* callbacks to call                                                  *)
(* ------------------------------------------------------------------ *)

InitNotify ==
    \E t \in SeasonTimes, k1, k2 \in EventKinds, two \in BOOLEAN :
        LET m0 == set_time(TimeManager(60), t)
            m1 == Scheduled(m0, GameTime(1, 1, 1, 0, 0), k1)
            m  == IF two THEN Scheduled(m1, GameTime(1, 1, 1, 0, 0), k2) ELSE m1
        IN  /\ ~two => k2 = k1
            /\ StateManagerInit
            /\ EventManagerOf(m)
            /\ TimeManagerIs(m, "schedule_event")

NextNotify ==
    \/ AdvanceSeason
    \/ ForceWeatherChange

SpecNotify == InitNotify /\ [][NextNotify]_vars

(* ------------------------------------------------------------------ *)
(* SpecPending: callbacks that return, some of which cancel or        *)
(* schedule events when they are called, are scheduled one after the  *)
(* other, for a time in the past or for later, and minutes pass       *)
(* ------------------------------------------------------------------ *)

\* the times callbacks are scheduled for: the minute before the start
\* and three minutes after it
PendingTimes == {GameTime(1, 1, 1, 5, 59), GameTime(1, 1, 1, 6, 3)}

\* the callbacks scheduled: what the callback does, repeating and
\* repeat_interval (the default 0, or 2 minutes)
PendingKinds ==
    {k \in [does : CallbackDoes, repeating : BOOLEAN, repeat_interval : {0, 2}] :
        k.repeating <=> k.repeat_interval > 0}

InitPending ==
    /\ StateManagerInit
    /\ EventManagerOf(TimeManager(1))
    /\ TimeManagerIs(TimeManager(1), "init")

ScheduleEvent ==
    \E event_time \in PendingTimes, kind \in PendingKinds :
        /\ next_event <= MaxScheduled
        /\ TmReturn(schedule_event(TmSelf, event_time, FALSE, kind.does, kind.repeating,
                                   kind.repeat_interval),
                    "schedule_event", 0)

\* update(1.0): a frame of one second, which is one game minute here
Tick ==
    \E new_weather \in WeatherType, duration \in Durations :
        /\ batches < MaxTicks
        /\ DrawnInUpdate(TmSelf, Grain, new_weather, duration, {240})
        /\ TmReturn(time_update(TmSelf, Grain, new_weather, duration), "update", Grain)

NextPending ==
    \/ ScheduleEvent
    \/ Tick

SpecPending == InitPending /\ [][NextPending]_vars

(* ------------------------------------------------------------------ *)
(* SpecCancel: the callbacks of SpecSchedule, the frames, and calls   *)
(* of cancel_event between the frames                                 *)
(* ------------------------------------------------------------------ *)

\* the TemporalEvent objects cancel_event is called with: the two that
\* schedule_event may have returned and one that was never scheduled
Handles == {1, 2, 3}

CancelEvent ==
    \E id \in Handles : TmReturn(cancel_event(TmSelf, id), "cancel_event", id)

NextCancel ==
    \/ Frame
    \/ CancelEvent

SpecCancel == InitSchedule /\ [][NextCancel]_vars


(* ------------------------------------------------------------------ *)
(* Vocabulary of the event properties                                 *)
(* ------------------------------------------------------------------ *)

\* the listeners a list of references or a log of calls names, in order
ListenersOf(seq) == [i \in 1..Len(seq) |-> seq[i].listener]

\* higher priority first; of two references of equal priority the one
\* registered first (the smaller identity) comes first
InPriorityOrder(refs) ==
    \A i, j \in 1..Len(refs) :
        i < j => \/ priority[refs[i].listener] > priority[refs[j].listener]
                 \/ /\ priority[refs[i].listener] = priority[refs[j].listener]
                    /\ refs[i].id < refs[j].id

(* ------------------------------------------------------------------ *)
(* C13: after any sequence of subscribe, subscribe_global and         *)
(* unsubscribe calls every per-kind list and the global list is in    *)
(* descending priority order with ties in registration order, and an  *)
(* emit invokes the handlers in exactly that order (global list       *)
(* first).                                                            *)
(* ------------------------------------------------------------------ *)
TheoremC13 ==
    /\ InPriorityOrder(_global_listeners)
    /\ \A k \in EventType : InPriorityOrder(_listeners[k])
    /\ lastEv.op = "emit" =>
          ListenersOf(handled) =
              ListenersOf(_global_listeners) \o ListenersOf(_listeners[lastEv.event_type])

\* priorities 5, 1, 5, -3 registered in this order and then notified:
\* the first 5, the second 5, the 1, the -3
WitnessC13 ==
    /\ lastEv.op = "emit"
    /\ _listeners["player_moved"] =
          << [listener |-> 1, id |-> 1], [listener |-> 3, id |-> 3],
             [listener |-> 2, id |-> 2], [listener |-> 4, id |-> 4] >>
    /\ ListenersOf(handled) = <<1, 3, 2, 4>>


\* the events this step dispatched: those it added to the history
Dispatched ==
    {_event_history'[i] : i \in 1..Len(_event_history')}
        \ {_event_history[i] : i \in 1..Len(_event_history)}

\* the handle_event calls of a log that were made with event e, in order
CallsFor(log, e) == SelectSeq(log, LAMBDA c : c.event = e.id)

\* the enabled subscribers of a list, in list order, each with the list it is on
EnabledOn(refs, via) ==
    LET on == SelectSeq(refs, LAMBDA ref : alive[ref.listener] /\ enabled[ref.listener])
    IN  [i \in 1..Len(on) |-> [listener |-> on[i].listener, via |-> via]]

\* the order in which the handlers of an event of kind k are due: the
\* enabled global subscribers, then the enabled subscribers of the kind
Due(k) == EnabledOn(_global_listeners, "global") \o EnabledOn(_listeners[k], "kind")

\* the calls c are the due sequence d cut after its first consuming handler
CutAtFirstConsumer(c, d) ==
    /\ Len(c) <= Len(d)
    /\ \A i \in 1..Len(c) : c[i].listener = d[i].listener /\ c[i].via = d[i].via
    /\ \A i \in 1..(Len(c) - 1) : c[i].did # "consume"
    /\ Len(c) < Len(d) => Len(c) > 0 /\ c[Len(c)].did = "consume"

(* ------------------------------------------------------------------ *)
(* C14: for every dispatched event the enabled global subscribers are *)
(* called before any subscriber of the event's kind, each list in its *)
(* order; the first handler that returns true ends the dispatch, so   *)
(* no later handler of either list is called; a disabled subscriber   *)
(* is never called.                                                   *)
(* ------------------------------------------------------------------ *)
TheoremC14 ==
    [][\A e \in Dispatched :
          /\ CutAtFirstConsumer(CallsFor(handled', e), Due(e.event_type))
          /\ \A i \in 1..Len(handled') : enabled[handled'[i].listener]]_vars

\* the global subscriber let the event pass, the first subscriber of the
\* kind consumed it, and the enabled subscriber behind it was not called
WitnessC14 ==
    /\ lastEv.op = "emit"
    /\ lastEv.immediate
    /\ enabled[3]
    /\ Len(handled) = 2
    /\ handled[1].via = "global" /\ handled[1].did # "consume"
    /\ handled[2].via = "kind" /\ handled[2].listener = 1 /\ handled[2].did = "consume"


\* the event an emit(k) of this step creates
Emitted == [event_type |-> lastEv'.event_type, id |-> clock, source |-> NoSource]

\* the events of a sequence
Events(seq) == {seq[i] : i \in 1..Len(seq)}

\* no handler called in this step queued an event or called process_events
HandlersKeepOut ==
    \A i \in 1..Len(handled') : handled'[i].did \notin {"emit", "drain"}

(* ------------------------------------------------------------------ *)
(* C15: emit with immediate=False calls no handler, leaves the        *)
(* history as it is and appends the event to the tail of the pending  *)
(* queue; emit with immediate=True dispatches the event to its        *)
(* handlers before it returns and does not put it on the queue: the   *)
(* queue is as before unless a handler itself queued or drained.      *)
(* ------------------------------------------------------------------ *)
TheoremC15 ==
    [][lastEv'.op = "emit" =>
          IF lastEv'.immediate
          THEN /\ Emitted \in Dispatched
               /\ Len(CallsFor(handled', Emitted)) = Len(Due(Emitted.event_type))
                     \/ \E i \in 1..Len(handled') : handled'[i].did = "consume"
               /\ Due(Emitted.event_type) # <<>> => handled'[1].event = Emitted.id
               /\ Emitted \notin Events(_event_queue')
               /\ HandlersKeepOut => _event_queue' = _event_queue
          ELSE /\ handled' = <<>>
               /\ _event_history' = _event_history
               /\ _event_queue' = Append(_event_queue, Emitted)
               /\ _processing' = _processing]_vars

\* an immediate emit reached its handlers while another event was waiting
\* in the queue, which is still waiting
WitnessC15 ==
    /\ lastEv.op = "emit"
    /\ lastEv.immediate
    /\ handled # <<>>
    /\ Len(_event_queue) = 1
    /\ _event_queue[1].id < handled[1].event
    /\ Len(_event_history) = 1

(* ------------------------------------------------------------------ *)
(* C16: a process_events() call of the game dispatches the queued     *)
(* events one at a time in the order they were emitted; when it       *)
(* returns the pending queue is empty and the processing flag is      *)
(* False.                                                             *)
(* ------------------------------------------------------------------ *)
TheoremC16 ==
    [][lastEv'.op = "process_events" =>
          LET n == Len(_event_history)
              q == Len(_event_queue)
          IN  /\ ~_processing
              /\ Len(_event_history') >= n + q
              /\ SubSeq(_event_history', 1, n) = _event_history
              /\ SubSeq(_event_history', n + 1, n + q) = _event_queue
              /\ \A i, j \in 1..Len(handled') :
                    i < j /\ handled'[i].processing /\ handled'[j].processing
                        => handled'[i].event <= handled'[j].event
              /\ \A e \in Events(_event_queue) :
                    CutAtFirstConsumer(CallsFor(handled', e), Due(e.event_type))
              /\ _event_queue' = <<>>
              /\ _processing' = FALSE]_vars

\* three queued events were dispatched in one drain
WitnessC16 ==
    /\ lastEv.op = "process_events"
    /\ Len(_event_history) = 3
    /\ \A i \in 1..3 : _event_history[i].source = NoSource
    /\ \E i, j, k \in 1..Len(handled) :
          /\ i < j /\ j < k
          /\ handled[i].event < handled[j].event
          /\ handled[j].event < handled[k].event


\* a handle_event call reduced to who was called, with which event, through which list
Who(c) == [listener |-> c.listener, event |-> c.event, via |-> c.via]

\* the handle_event calls due for one event when no handler consumes it
DueFor(e) ==
    LET d == Due(e.event_type)
    IN  [i \in 1..Len(d) |-> [listener |-> d[i].listener, event |-> e.id, via |-> d[i].via]]

RECURSIVE DueForAll(_)
\* the handle_event calls due for a queue of events that nobody consumes
DueForAll(queue) ==
    IF queue = <<>> THEN <<>> ELSE DueFor(Head(queue)) \o DueForAll(Tail(queue))

\* a handler called process_events() in this step and no handler consumed
\* or queued anything
OnlyReentry ==
    /\ \E i \in 1..Len(handled') : handled'[i].did = "drain"
    /\ \A i \in 1..Len(handled') : handled'[i].did \in {"pass", "raise", "drain"}

(* ------------------------------------------------------------------ *)
(* C17: process_events() called by a handler while a drain is in      *)
(* progress does nothing: it dispatches no event, leaves the queue    *)
(* and the history alone and does not clear the flag of the outer     *)
(* drain. The drain therefore runs exactly as if the handler had      *)
(* only returned False, and every handler it calls finds the flag     *)
(* set.                                                               *)
(* ------------------------------------------------------------------ *)
TheoremC17 ==
    [][(lastEv'.op = "process_events" /\ OnlyReentry) =>
          /\ [i \in 1..Len(handled') |-> Who(handled'[i])] = DueForAll(_event_queue)
          /\ _event_history' = _event_history \o _event_queue
          /\ \A i \in 1..Len(handled') : handled'[i].processing
          /\ _event_queue' = <<>>
          /\ _processing' = FALSE]_vars

\* the first handler of the first of two queued events called
\* process_events(); the rest of that event's handlers and the second event followed
WitnessC17 ==
    /\ lastEv.op = "process_events"
    /\ Len(handled) >= 3
    /\ handled[1].did = "drain"
    /\ handled[2].event = handled[1].event
    /\ handled[Len(handled)].event > handled[1].event
    /\ \A i \in 1..Len(handled) : handled[i].did \in {"pass", "drain"}

\* the events created during this step: those the handlers queued
CreatedNow ==
    {e \in Events(_event_history') \cup Events(_event_queue') : e.id >= clock}

(* ------------------------------------------------------------------ *)
(* C18: an event that a handler queues while a drain is in progress   *)
(* is not dispatched by that drain: the drain dispatches only events  *)
(* that were queued when it began, and what handlers queued is still  *)
(* in the pending queue when it returns.                              *)
(* ------------------------------------------------------------------ *)
ClaimC18 ==
    [][lastEv'.op = "process_events" =>
          \A e \in CreatedNow : e \in Events(_event_queue') /\ e \notin Dispatched]_vars

(* ------------------------------------------------------------------ *)
(* C19: a handler that raises does not end the dispatch: the next     *)
(* enabled handler of the event (later global ones, then those of     *)
(* the kind) is still called, the event does not count as consumed,   *)
(* and the remaining queued events of the drain are still             *)
(* dispatched.                                                        *)
(* ------------------------------------------------------------------ *)
TheoremC19 ==
    [][/\ \A e \in Dispatched :
             LET c == CallsFor(handled', e)
                 d == Due(e.event_type)
             IN  \A i \in 1..Len(c) :
                    c[i].did = "raise" /\ i < Len(d)
                        => /\ Len(c) > i
                           /\ c[i + 1].listener = d[i + 1].listener
                           /\ c[i + 1].via = d[i + 1].via
       /\ (lastEv'.op = "process_events"
              /\ \E i \in 1..Len(handled') : handled'[i].did = "raise")
             => /\ Events(_event_queue) \subseteq Dispatched
                /\ _event_queue' = <<>>]_vars

\* the global handler raised on the first of two queued events: the
\* handlers of the kind were called all the same, and so were the
\* handlers of the second event
WitnessC19 ==
    /\ lastEv.op = "process_events"
    /\ Len(handled) >= 4
    /\ handled[1].via = "global" /\ handled[1].did = "raise"
    /\ handled[2].via = "kind" /\ handled[2].event = handled[1].event
    /\ handled[Len(handled)].event > handled[1].event
    /\ handled[Len(handled)].via = "kind"


\* the number of events dispatched so far: every event created, less
\* those still queued
DispatchedSoFar == clock - 1 - Len(_event_queue)

(* ------------------------------------------------------------------ *)
(* C20: every dispatched event, immediate or drained, is in the       *)
(* history exactly once while it is among the 1000 most recent: the   *)
(* history holds the last min(n, 1000) of the n events dispatched so  *)
(* far, in dispatch order, the oldest evicted first. After 1001       *)
(* immediate emits its length is 1000 and the first event is gone.    *)
(* ------------------------------------------------------------------ *)
TheoremC20 ==
    LET n == DispatchedSoFar
        h == Len(_event_history)
    IN  /\ h = IF n > 1000 THEN 1000 ELSE n
        /\ \A i \in 1..h : _event_history[i].id = n - h + i

\* 1001 events have been dispatched: the history holds the second to the 1001st
WitnessC20 ==
    /\ DispatchedSoFar = 1001
    /\ lastEv.op = "emit"
    /\ lastEv.immediate
    /\ Len(_event_history) = 1000
    /\ _event_history[1].id = 2
    /\ _event_history[1000].id = 1001


\* the history entries a filter lets through
Matching(k) ==
    IF k = NoFilter THEN _event_history
    ELSE SelectSeq(_event_history, LAMBDA e : e.event_type = k)

(* ------------------------------------------------------------------ *)
(* C21: for every limit >= 0 and every kind filter,                   *)
(* get_event_history returns the last min(limit, n) of the n history  *)
(* entries that match the filter, in dispatch order; it never         *)
(* returns more than `limit` entries.                                 *)
(* ------------------------------------------------------------------ *)
ClaimC21 ==
    lastEv.op = "get_event_history" =>
        LET all == Matching(query.event_type)
            n   == Len(all)
            len == IF query.limit < n THEN query.limit ELSE n
        IN  /\ Len(query.result) <= query.limit
            /\ query.result = SubSeq(all, n - len + 1, n)


\* the listeners whose owner a handler of this step destroyed
DiedNow == {l \in Listeners : alive[l] /\ ~alive'[l]}

\* the position in the log of this step of the call that destroyed an
\* owner (0 when none did)
KillAt ==
    IF DiedNow = {} THEN 0
    ELSE CHOOSE i \in 1..Len(handled') :
            /\ handled'[i].did = "destroy" /\ handled'[i].listener \notin DiedNow
            /\ \A j \in 1..(i - 1) :
                   ~(handled'[j].did = "destroy" /\ handled'[j].listener \notin DiedNow)

\* the calls made with event e before an owner was destroyed
CalledBeforeDeath(e) ==
    {[listener |-> handled'[i].listener, via |-> handled'[i].via] :
        i \in {j \in 1..KillAt : handled'[j].event = e.id}}

\* the order in which the handlers of event e are due when an owner is
\* destroyed on the way: a subscriber that goes before its turn is left out
StillDue(e) ==
    SelectSeq(Due(e.event_type),
              LAMBDA x : x.listener \notin DiedNow \/ x \in CalledBeforeDeath(e))

\* no subscriber list holds a reference to a listener that is gone
NoDeadEntry ==
    /\ \A i \in 1..Len(_global_listeners) : alive[_global_listeners[i].listener]
    /\ \A k \in EventType :
          \A i \in 1..Len(_listeners[k]) : alive[_listeners[k][i].listener]

(* ------------------------------------------------------------------ *)
(* C22: once the owner of a subscriber has been destroyed no          *)
(* dispatch, immediate or drained, through the global list or the     *)
(* list of a kind, calls its handler: not a later one, and not the    *)
(* one in which a handler destroyed it. The dead entry is skipped     *)
(* and the live enabled subscribers are called in list order, which   *)
(* is priority order, up to the first that consumes the event.        *)
(* ------------------------------------------------------------------ *)
TheoremC22 ==
    [][/\ \A i \in 1..Len(handled') : alive[handled'[i].listener]
       /\ \A i \in 1..Len(handled') :
             i > KillAt => handled'[i].listener \notin DiedNow
       /\ \A e \in Dispatched :
             CutAtFirstConsumer(CallsFor(handled', e), StillDue(e))
       /\ InPriorityOrder(_global_listeners')
       /\ \A k \in EventType : InPriorityOrder(_listeners'[k])
       /\ NoDeadEntry']_vars

\* the handler of subscriber 1 destroyed the owner of subscriber 3, the
\* next of the kind's list and enabled: it was skipped, and subscriber 2
\* behind it was called
WitnessC22 ==
    /\ lastEv.op = "emit"
    /\ lastEv.immediate
    /\ lastEv.listener = 3
    /\ ~alive[3]
    /\ enabled[3]
    /\ \E i, j \in 1..Len(handled) :
          /\ i < j
          /\ handled[i].listener = 1 /\ handled[i].via = "kind" /\ handled[i].did = "destroy"
          /\ handled[j].listener = 2 /\ handled[j].via = "kind"
                /\ handled[j].event = handled[i].event
    /\ \A i \in 1..Len(handled) : handled[i].listener # 3


(* ------------------------------------------------------------------ *)
(* Vocabulary of the time properties                                  *)
(* ------------------------------------------------------------------ *)

\* a GameTime with every field in its range
ValidGameTime(t) ==
    /\ t.minute \in 0..59
    /\ t.hour \in 0..23
    /\ t.day \in 1..30
    /\ t.month \in 1..12
    /\ t.year >= 1

\* the minute after t: minute 59 rolls the hour, hour 23 the day, day 30
\* the month, month 12 the year
NextMinute(t) ==
    LET hour_rolls  == t.minute = 59
        day_rolls   == hour_rolls /\ t.hour = 23
        month_rolls == day_rolls /\ t.day = 30
        year_rolls  == month_rolls /\ t.month = 12
    IN  [minute |-> IF hour_rolls THEN 0 ELSE t.minute + 1,
         hour   |-> IF day_rolls THEN 0 ELSE IF hour_rolls THEN t.hour + 1 ELSE t.hour,
         day    |-> IF month_rolls THEN 1 ELSE IF day_rolls THEN t.day + 1 ELSE t.day,
         month  |-> IF year_rolls THEN 1 ELSE IF month_rolls THEN t.month + 1 ELSE t.month,
         year   |-> IF year_rolls THEN t.year + 1 ELSE t.year]

RECURSIVE MinutesAfter(_, _)
\* the time n minutes after a valid time t, one minute at a time
MinutesAfter(t, n) ==
    IF n = 0 \/ ~ValidGameTime(t) THEN t ELSE MinutesAfter(NextMinute(t), n - 1)

(* ------------------------------------------------------------------ *)
(* C23: advancing a valid GameTime by one minute gives a valid        *)
(* GameTime with a strictly larger total_minutes, and it carries      *)
(* exactly at the boundaries: minute 59 rolls the hour, hour 23 the   *)
(* day, day 30 the month, month 12 the year.                          *)
(* ------------------------------------------------------------------ *)
TheoremC23 ==
    [][(lastTm'.op = "_advance_time" /\ lastTm'.arg = 1 /\ ValidGameTime(current_time)) =>
          /\ ValidGameTime(current_time')
          /\ total_minutes(current_time') > total_minutes(current_time)
          /\ current_time' = NextMinute(current_time)]_vars

\* one minute after the last minute of year 1: every field has rolled
WitnessC23 ==
    /\ lastTm.op = "_advance_time"
    /\ lastTm.arg = 1
    /\ batches = 1
    /\ current_time = GameTime(2, 1, 1, 0, 0)

(* ------------------------------------------------------------------ *)
(* C24: advancing a valid GameTime by n >= 1 minutes in one batch     *)
(* gives the GameTime that n advances by one minute give, every field *)
(* in its range; year 1, month 2, day 30, 23:59 advanced by 2 minutes *)
(* is year 1, month 3, day 1, 00:01.                                  *)
(* ------------------------------------------------------------------ *)
TheoremC24 ==
    [][(lastTm'.op = "_advance_time" /\ ValidGameTime(current_time)) =>
          /\ lastTm'.arg >= 1
          /\ current_time' = MinutesAfter(current_time, lastTm'.arg)
          /\ ValidGameTime(current_time')]_vars

\* the batch of 2 minutes that took the clock from 23:59 on day 30 of
\* month 2 to 00:01 on day 1 of month 3
WitnessC24 ==
    /\ lastTm.op = "_advance_time"
    /\ lastTm.arg = 2
    /\ batches = 1
    /\ advanced = 2
    /\ current_time = GameTime(1, 3, 1, 0, 1)


(* ------------------------------------------------------------------ *)
(* C25: after any sequence of update(dt) calls with dt >= 0, made     *)
(* while not paused at a fixed scale, the game minutes advanced so    *)
(* far are the integer part of the sum of dt * scale and the          *)
(* accumulator is its fractional part, in [0, 1): however the elapsed *)
(* time is split into frames no minute is skipped or counted twice.   *)
(* ------------------------------------------------------------------ *)
TheoremC25 ==
    /\ advanced = elapsed \div Grain
    /\ accumulated_time = elapsed % Grain
    /\ 0 <= accumulated_time /\ accumulated_time < Grain
    /\ current_time = MinutesAfter(GameTime(1, 1, 1, 6, 0), advanced)

\* a frame that found a fraction in the accumulator, advanced the clock
\* by more than one minute and left a fraction behind, after earlier
\* frames had advanced it too
WitnessC25 ==
    /\ lastTm.op = "update"
    /\ time_scale = 3
    /\ batches >= 2
    /\ published # <<>>
    /\ (accumulated_time + advanced * Grain) - lastTm.arg * time_scale
           > ((advanced - 2) * Grain)
    /\ ((accumulated_time + advanced * Grain) - lastTm.arg * time_scale) % Grain # 0
    /\ accumulated_time # 0

(* ------------------------------------------------------------------ *)
(* C26: while the clock is paused update(dt) changes nothing: not the *)
(* game time, the accumulator, the weather, the pending and the       *)
(* completed callbacks or the event queue; the first update after     *)
(* resume() advances by its own dt and the fraction held before the   *)
(* pause, so nothing is caught up for the paused period.              *)
(* ------------------------------------------------------------------ *)
TheoremC26 ==
    [][/\ (lastTm'.op = "update" /\ paused) =>
             /\ UNCHANGED <<current_time, accumulated_time, current_weather, temporal_events,
                            completed_events, _event_queue, paused, advanced>>
             /\ published' = <<>> /\ fired' = <<>>
       /\ lastTm'.op \in {"pause", "resume"} =>
             UNCHANGED <<current_time, accumulated_time, current_weather, temporal_events,
                         completed_events, _event_queue, advanced>>
       /\ (lastTm'.op = "update" /\ lastTm.op = "resume") =>
             LET due == accumulated_time + lastTm'.arg * time_scale
             IN  /\ advanced' - advanced = due \div Grain
                 /\ accumulated_time' = due % Grain
                 /\ current_time' = MinutesAfter(current_time, due \div Grain)]_vars

\* the first update after a resume: it advanced the clock by one minute,
\* made of the fraction held before the pause and its own shorter frame,
\* and by no more
WitnessC26 ==
    /\ lastTm.op = "update"
    /\ lastTm.before = "resume"
    /\ ~paused
    /\ time_scale = 1
    /\ lastTm.arg < Grain
    /\ batches = 1
    /\ advanced = 1
    /\ elapsed < 2 * Grain


\* the events of a log of the last operation
PublishedIn(log) == {log[i] : i \in 1..Len(log)}

\* the sub-notification of a time of day that has one
Transition(time_of_day) ==
    CASE time_of_day = "dawn" -> "sunrise"
      [] time_of_day = "dusk" -> "sunset"
      [] time_of_day = "midnight" -> "midnight"
      [] OTHER -> "none"

TheoremC28 ==
    [][\A e \in PublishedIn(published') :
          (lastTm'.op = "_advance_time" /\ e.what = "weather") =>
              LET allowed == weather_patterns[get_season(current_time')]
              IN  /\ e.old = current_weather.weather_type
                  /\ e.new = current_weather'.weather_type
                  /\ \E i \in 1..Len(allowed) : allowed[i] = e.new
                  /\ Len(allowed) >= 2 => e.new # e.old]_vars

\* the weather was forced to snow, one of the three types of the winter,
\* and the batch after it re-rolled: it chose one of the other two
WitnessC28 ==
    /\ lastTm.op = "_advance_time"
    /\ lastTm.before = "force_weather_change"
    /\ get_season(current_time) = "winter"
    /\ \E i \in 1..Len(published) :
          /\ published[i].what = "weather"
          /\ published[i].old = "snow"
          /\ published[i].new \in {"cloudy", "clear"}
          /\ current_weather.weather_type = published[i].new


\* how often the last operation called the callback of event id
TimesFired(log, id) == Len(SelectSeq(log, LAMBDA f : f.id = id))

\* the event of the pending list with identity id, after this step
After(id) ==
    CHOOSE event \in {temporal_events'[i] : i \in 1..Len(temporal_events')} : event.id = id

\* this step made an advancement batch
Batch == batches' = batches + 1

\* the events of the pending list before this step
Pending == {temporal_events[i] : i \in 1..Len(temporal_events)}

(* ------------------------------------------------------------------ *)
(* C29: a non-repeating scheduled callback fires exactly once over    *)
(* any sequence of later updates: in the first advancement batch      *)
(* after which the current total minutes are >= its target (the next  *)
(* batch if the target is in the past), and never again; after it     *)
(* fired it is no longer pending and it is completed.                 *)
(* ------------------------------------------------------------------ *)
TheoremC29 ==
    [][/\ \A event \in Pending :
             ~event.repeating =>
                 IF Batch /\ total_minutes(current_time') >= event.next_execution
                 THEN /\ TimesFired(fired', event.id) = 1
                      /\ event.id \notin Ids(temporal_events')
                      /\ TimesFired([i \in 1..Len(completed_events') |->
                                        [id |-> completed_events'[i]]], event.id) = 1
                 ELSE /\ TimesFired(fired', event.id) = 0
                      /\ event.id \in Ids(temporal_events')
                      /\ After(event.id) = event
       /\ \A i \in 1..Len(fired') : fired'[i].id \in Ids(temporal_events)
       /\ \A i \in 1..Len(completed_events) : completed_events'[i] = completed_events[i]
       /\ Len(completed_events') >= Len(completed_events)]_vars

\* the one callback scheduled has fired and is completed; two or more
\* batches have been made, the last one fired nothing and nothing is
\* pending
WitnessC29 ==
    /\ lastTm.op = "update"
    /\ batches >= 3
    /\ published # <<>>
    /\ fired = <<>>
    /\ temporal_events = <<>>
    /\ completed_events = <<1>>
    /\ next_event = 2

(* ------------------------------------------------------------------ *)
(* C30: every time a repeating scheduled callback (repeat_interval >  *)
(* 0) fires, also when the callback raises, its next_execution is     *)
(* reset to the current total minutes plus its interval and it stays  *)
(* pending, so it does not fire again before `interval` more minutes  *)
(* have passed.                                                       *)
(* ------------------------------------------------------------------ *)
ClaimC30 ==
    [][\A event \in Pending :
          (event.repeating /\ event.repeat_interval > 0
                /\ TimesFired(fired', event.id) > 0) =>
              /\ event.id \in Ids(temporal_events')
              /\ After(event.id).next_execution =
                     total_minutes(current_time') + event.repeat_interval]_vars

\* the last operation called a callback that raised
Faulted(log) == \E i \in 1..Len(log) : log[i].raised

\* the event was due at the time t
DueAt(event, t) == total_minutes(t) >= event.next_execution

(* ------------------------------------------------------------------ *)
(* C31: if a scheduled callback raises during an advancement batch,   *)
(* the other due callbacks of that batch are still executed, the      *)
(* faulting non-repeating callback is still removed from the pending  *)
(* list, and the batch still ends by publishing the time-advanced     *)
(* notification; the exception does not escape update().              *)
(* ------------------------------------------------------------------ *)
TheoremC31 ==
    [][(Batch /\ Faulted(fired')) =>
          /\ \A event \in Pending :
                 DueAt(event, current_time') => TimesFired(fired', event.id) = 1
          /\ \A event \in Pending :
                 (event.raises /\ ~event.repeating /\ DueAt(event, current_time')) =>
                     /\ event.id \notin Ids(temporal_events')
                     /\ \E i \in 1..Len(completed_events') : completed_events'[i] = event.id
          /\ published' # <<>>
          /\ Last(published').what = "time"
          /\ lastTm'.op = "update"
          /\ ~lastTm'.raised]_vars

\* a batch called the callback of event 1, which raised, and then the
\* callback of event 2; event 1 is not pending any more and the
\* time-advanced notification is the last one published
WitnessC31 ==
    /\ lastTm.op = "update"
    /\ ~lastTm.raised
    /\ Len(fired) = 2
    /\ fired[1].id = 1
    /\ fired[1].raised
    /\ fired[2].id = 2
    /\ ~fired[2].raised
    /\ 1 \notin Ids(temporal_events)
    /\ Last(published).what = "time"

\* events without the one of identity id
Without(events, id) == SelectSeq(events, LAMBDA event : event.id # id)

(* ------------------------------------------------------------------ *)
(* C32: cancel_event on a callback that is still pending removes it   *)
(* and returns True, and the callback is never executed by any later  *)
(* update (only pending events are called, and an event that left the *)
(* pending list never comes back); cancel_event on a callback that is *)
(* not pending returns False and leaves the pending and completed     *)
(* lists unchanged.                                                   *)
(* ------------------------------------------------------------------ *)
TheoremC32 ==
    [][/\ \A id \in Handles :
             (lastTm'.op = "cancel_event" /\ lastTm'.arg = id) =>
                 IF id \in Ids(temporal_events)
                 THEN /\ lastTm'.ret
                      /\ temporal_events' = Without(temporal_events, id)
                      /\ completed_events' = completed_events
                      /\ fired' = <<>>
                 ELSE /\ ~lastTm'.ret
                      /\ temporal_events' = temporal_events
                      /\ completed_events' = completed_events
                      /\ fired' = <<>>
       /\ \A i \in 1..Len(fired') : fired'[i].id \in Ids(temporal_events)
       /\ Ids(temporal_events') \subseteq Ids(temporal_events)]_vars

\* the one callback scheduled was cancelled (it is neither pending nor
\* completed); the clock is past every time a callback was scheduled
\* for and the last batch called nothing
WitnessC32 ==
    /\ lastTm.op = "update"
    /\ next_event = 2
    /\ batches >= 3
    /\ total_minutes(current_time) >= total_minutes(GameTime(1, 1, 1, 6, 3))
    /\ fired = <<>>
    /\ temporal_events = <<>>
    /\ completed_events = <<>>

\* the GameEvent objects the step added to the queue of the event manager
Queued == SubSeq(_event_queue', Len(_event_queue) + 1, Len(_event_queue'))

(* ------------------------------------------------------------------ *)
(* C33: each advancement batch queues exactly one time-advanced       *)
(* notification carrying the old and new time, the bucket and the     *)
(* season, and it is queued last in the batch: after any sunrise,     *)
(* sunset or midnight, season-change and weather-change notifications *)
(* of that batch and after all due scheduled callbacks of that batch  *)
(* have run.                                                          *)
(* ------------------------------------------------------------------ *)
TheoremC33 ==
    [][Batch =>
          LET n == Len(published')
          IN  /\ n >= 1
              /\ published'[n] =
                     Published("day_night_changed", "time", current_time, current_time',
                               get_time_of_day(current_time'), get_season(current_time'))
              /\ \A i \in 1..(n - 1) : published'[i].what # "time"
              /\ \A event \in Pending :
                     DueAt(event, current_time') => TimesFired(fired', event.id) >= 1
              /\ \A i \in 1..Len(fired') : fired'[i].at = n - 1
              /\ Len(Queued) = n
              /\ \A i \in 1..n : Queued[i].event_type = published'[i].event_type
              /\ _event_queue' = _event_queue \o Queued]_vars

\* a batch entered midnight and the spring, changed the weather and called
\* two callbacks; the time-advanced notification is the fourth and last
\* one it published, and the callbacks were called after the first three
WitnessC33 ==
    /\ lastTm.op = "_advance_time"
    /\ Len(published) = 4
    /\ published[1].what = "midnight"
    /\ published[2].what = "season_change"
    /\ published[3].what = "weather"
    /\ published[4].what = "time"
    /\ Len(fired) = 2
    /\ fired[1].at = 3
    /\ fired[2].at = 3

(* ------------------------------------------------------------------ *)
(* C34: the completed-callback list is bounded: there is a fixed      *)
(* capacity that its length never exceeds, whatever number of         *)
(* non-repeating callbacks are scheduled and fired over time. Checked *)
(* for every capacity smaller than the number of callbacks the model  *)
(* schedules: the list stays shorter than that number.                *)
(* ------------------------------------------------------------------ *)
ClaimC34 == Len(completed_events) < MaxScheduled

\* how many entries of a subscriber list refer to listener l
Entries(refs, l) == Cardinality({i \in 1..Len(refs) : refs[i].listener = l})

\* how many handle_event calls of a log went to listener l
Invocations(log, l) == Cardinality({i \in 1..Len(log) : log[i].listener = l})

(* ------------------------------------------------------------------ *)
(* C35: a handler subscribed n times to the same kind is invoked n    *)
(* times for each dispatched event of that kind (no handler consumes  *)
(* the event here), and a single unsubscribe(kind, handler) removes   *)
(* all n entries while keeping every other entry of that list in its  *)
(* order; unsubscribing a handler that is not subscribed changes no   *)
(* subscriber list and raises no error.                               *)
(* ------------------------------------------------------------------ *)
TheoremC35 ==
    [][/\ lastEv'.op = "emit" =>
             \A l \in Listeners :
                 Invocations(handled', l) = Entries(_listeners[lastEv'.event_type], l)
       /\ lastEv'.op = "unsubscribe" =>
             LET k == lastEv'.event_type
                 l == lastEv'.listener
             IN  /\ Entries(_listeners'[k], l) = 0
                 /\ _listeners'[k] = SelectSeq(_listeners[k], LAMBDA ref : ref.listener # l)
                 /\ \A other \in EventType \ {k} : _listeners'[other] = _listeners[other]
                 /\ _global_listeners' = _global_listeners
                 /\ Entries(_listeners[k], l) = 0 => _listeners' = _listeners]_vars

\* listener 1 subscribed twice and listener 2 once to the kind of the
\* event emitted: listener 1 was called twice, listener 2 once
WitnessC35 ==
    /\ lastEv.op = "emit"
    /\ Entries(_listeners["player_moved"], 1) = 2
    /\ Entries(_listeners["player_moved"], 2) = 1
    /\ ListenersOf(handled) = <<1, 1, 2>>

(* ------------------------------------------------------------------ *)
(* C36: update() never raises because of the pending transition:      *)
(* whenever update() finds a pending change or push, its target kind  *)
(* is still registered, for every interleaving of accepted transition *)
(* requests with unregister_state and cleanup before the update.      *)
(* ------------------------------------------------------------------ *)
ClaimC36 ==
    [][(lastOp'.op = "update" /\ _pending_transition.type \in {"change", "push"}) =>
          /\ states[_pending_transition.target] # NoObject
          /\ ~lastOp'.raised]_vars

(* ------------------------------------------------------------------ *)
(* C37: every external process_events() call terminates when each     *)
(* handler queues at most a bounded number of events per invocation   *)
(* (here a handler that re-emits one queued event of its own kind     *)
(* each time it is called): a call that has begun returns.            *)
(* ------------------------------------------------------------------ *)
ClaimC37 == _processing ~> ~_processing

\* the minutes the event has still to wait at the time t
Remaining(event, t) == event.next_execution - total_minutes(t)

(* ------------------------------------------------------------------ *)
(* C38: for every valid GameTime and every m >= 1, advancing the      *)
(* clock by m minutes increases total_minutes by exactly m, so a      *)
(* repeating callback with interval k that fired at time t next fires *)
(* only after k game minutes have been advanced, also across a year   *)
(* rollover: a callback that waits fires in a batch only if the batch *)
(* has at least the minutes it had to wait, and otherwise waits that  *)
(* many minutes less.                                                 *)
(* ------------------------------------------------------------------ *)
ClaimC38 ==
    [][(Batch /\ ValidGameTime(current_time)) =>
          /\ total_minutes(current_time') = total_minutes(current_time) + lastTm'.arg
          /\ \A event \in Pending :
                 (event.repeating /\ Remaining(event, current_time) > 0) =>
                     IF TimesFired(fired', event.id) > 0
                     THEN lastTm'.arg >= Remaining(event, current_time)
                     ELSE Remaining(After(event.id), current_time') =
                              Remaining(event, current_time) - lastTm'.arg]_vars

\* the identities of the events that the callbacks called by the last
\* operation cancelled
Cancelled(log) == UNION {log[i].cancelled : i \in 1..Len(log)}

(* ------------------------------------------------------------------ *)
(* C39: a scheduled callback that calls cancel_event (on itself or on *)
(* another pending callback) or schedule_event while the due          *)
(* callbacks of a batch are being processed does not disturb that     *)
(* batch: every other callback that was due and not cancelled is      *)
(* still executed exactly once in the batch, no exception escapes     *)
(* update(), and the time-advanced notification is still published.   *)
(* ------------------------------------------------------------------ *)
ClaimC39 ==
    [][(Batch /\ lastTm'.op = "update") =>
          /\ \A event \in Pending :
                 (should_execute(event, current_time') /\ event.id \notin Cancelled(fired')) =>
                     TimesFired(fired', event.id) = 1
          /\ ~lastTm'.raised
          /\ published' # <<>>
          /\ Last(published').what = "time"]_vars

\* the last operation changed the weather by a draw of its own
Rerolled(events) == \E i \in 1..Len(events) : events[i].what = "weather"

====
